---- MODULE Spec2Model ----
(***************************************************************************)
(* Model of the ClauseAI contract-analysis pipeline: the hybrid LLM        *)
(* gateway (utils/hybrid_llm.py, utils/ollama_engine.py), the prompt       *)
(* agents built on it (agents_llm/*.py, report/final_report.py), the       *)
(* parallel task runner (utils/parallel_runner.py) and the executor        *)
(* (agents/executor_agent.py).                                             *)
(*                                                                         *)
(* Python strings are modelled as sequences of one-character strings, so   *)
(* that len(), strip(), lower(), slicing and the `in` substring test are   *)
(* computed, not assumed.  An Optional[str] is None (the empty tuple) or   *)
(* Some(s) (a one-element tuple holding the string).                       *)
(***************************************************************************)
EXTENDS Integers, Sequences, FiniteSets, TLC

VARIABLES
    gw,     \* the gateway: one call of call_hybrid_llm
    ag,     \* the prompt agent that is calling the gateway
    rn,     \* the parallel runner and its tasks
    ex,     \* the executor: one call of execute_full_analysis
    mem,    \* the session store: a ContractMemory and the calls made on it
    rk,     \* a function called on its own: its argument and its result
    th,     \* the worker threads inside call_ollama, the clock and the shared timestamp
    hist,   \* the history file: the saved contracts, and the last call made on it
    ch,     \* chunk_text: its arguments and the locals of its loop
    mt,     \* threads that call into memory/memory.py at the same time
    cc      \* a ContractClassifier: its cache and the calls made on it

vars == << gw, ag, rn, ex, mem, rk, th, hist, ch, mt, cc >>

\* ------------------------------------------------------------------------
\* Python string primitives
\* ------------------------------------------------------------------------

None == << >>

Some(s) == << s >>

\* Python truthiness of an Optional[str]: None and "" are falsy.
Truthy(o) == o # None /\ Len(o[1]) > 0

Whitespace == {" ", "\n", "\t", "\r"}

SetMin(S) == CHOOSE x \in S : \A y \in S : x <= y

SetMax(S) == CHOOSE x \in S : \A y \in S : x >= y

\* F(arg) with arg computed once, before the call, as Python computes the
\* argument of a call and the right-hand side of an assignment.
Call(F(_), arg) == CHOOSE r \in { F(x) : x \in {arg} } : TRUE

\* str.strip()
Strip(s) ==
    LET strip(t) ==
            IF \A i \in 1..Len(t) : t[i] \in Whitespace THEN << >>
            ELSE SubSeq(t, SetMin({ i \in 1..Len(t) : t[i] \notin Whitespace }),
                           SetMax({ i \in 1..Len(t) : t[i] \notin Whitespace }))
    IN  Call(strip, s)

\* s[:n]
Take(s, n) == SubSeq(s, 1, IF n < Len(s) THEN n ELSE Len(s))

\* The map of str.lower() on the letters it changes.
LowerOf ==
    LET UPPER == << "A", "B", "C", "D", "E", "F", "G", "H", "I", "J", "K", "L", "M",
                    "N", "O", "P", "Q", "R", "S", "T", "U", "V", "W", "X", "Y", "Z" >>
        LOWER == << "a", "b", "c", "d", "e", "f", "g", "h", "i", "j", "k", "l", "m",
                    "n", "o", "p", "q", "r", "s", "t", "u", "v", "w", "x", "y", "z" >>
    IN  [c \in { UPPER[i] : i \in 1..26 } |-> LOWER[CHOOSE i \in 1..26 : UPPER[i] = c]]

LowerChar(c) == IF c \in DOMAIN LowerOf THEN LowerOf[c] ELSE c

\* str.lower()
Lower(s) == LET lower(t) == [i \in 1..Len(t) |-> LowerChar(t[i])] IN Call(lower, s)

\* s.startswith(sub, i - 1): sub occurs in s at position i (1-based)
OccursAt(s, sub, i) ==
    /\ i >= 1
    /\ i + Len(sub) - 1 <= Len(s)
    /\ \A j \in 1..Len(sub) : s[i + j - 1] = sub[j]

\* sub in s
Contains(s, sub) == \E t \in {s} : \E i \in 1..(Len(t) - Len(sub) + 1) : OccursAt(t, sub, i)

\* max(lo, min(hi, x))
Clamp(lo, x, hi) == IF x < lo THEN lo ELSE IF x > hi THEN hi ELSE x


\* ------------------------------------------------------------------------
\* String literals of the source, one record per source file
\* ------------------------------------------------------------------------

\* ""
TXT_EMPTY == << >>

\* String literals of utils/hybrid_llm.py.
HybridText ==
    [ NO_PROMPT |->
          \* "No prompt provided"
          << "N","o"," ","p","r","o","m","p","t"," ","p","r","o","v","i","d","e","d" >>,
      HYBRID_FALLBACK_FINAL |->
          \* "Final report unavailable. Please retry."
          << "F","i","n","a","l"," ","r","e","p","o","r","t"," ","u","n","a","v","a","i","l",
             "a","b","l","e","."," ","P","l","e","a","s","e"," ","r","e","t","r","y","." >>,
      HYBRID_FALLBACK_ANALYSIS |->
          \* "Analysis unavailable. Please retry."
          << "A","n","a","l","y","s","i","s"," ","u","n","a","v","a","i","l","a","b","l","e",
             "."," ","P","l","e","a","s","e"," ","r","e","t","r","y","." >> ]

\* String literals of utils/ollama_engine.py.
EngineText ==
    [ ENGINE_FALLBACK_FINAL |->
          \* "Final report unavailable. AI model not responding."
          << "F","i","n","a","l"," ","r","e","p","o","r","t"," ","u","n","a","v","a","i","l",
             "a","b","l","e","."," ","A","I"," ","m","o","d","e","l"," ","n","o","t"," ","r",
             "e","s","p","o","n","d","i","n","g","." >>,
      ENGINE_FALLBACK_ANALYSIS |->
          \* "Contract analysis unavailable. Please retry."
          << "C","o","n","t","r","a","c","t"," ","a","n","a","l","y","s","i","s"," ","u","n",
             "a","v","a","i","l","a","b","l","e","."," ","P","l","e","a","s","e"," ","r","e",
             "t","r","y","." >> ]

\* Texts a provider puts in its response body (inputs of the model).
ProviderText ==
    [ TXT_BLANK |->
          \* "   "
          << " "," "," " >>,
      TXT_OK |->
          \* "ok"
          << "o","k" >>,
      TXT_FIVE |->
          \* "12345"
          << "1","2","3","4","5" >>,
      TXT_FIVE_PADDED |->
          \* " 12345 "
          << " ","1","2","3","4","5"," " >>,
      TXT_SIX |->
          \* "123456"
          << "1","2","3","4","5","6" >>,
      TXT_ANSWER |->
          \* "  RISK LEVEL: Low "
          << " "," ","R","I","S","K"," ","L","E","V","E","L",":"," ","L","o","w"," " >>,
      TXT_MARKER |->
          \* "Service UNAVAILABLE now"
          << "S","e","r","v","i","c","e"," ","U","N","A","V","A","I","L","A","B","L","E"," ",
             "n","o","w" >> ]

\* String literals of agents_llm/legal_agent.py.
LegalText ==
    [ LEGAL_NO_TEXT |->
          \* "No contract text provided for legal analysis."
          << "N","o"," ","c","o","n","t","r","a","c","t"," ","t","e","x","t"," ","p","r","o",
             "v","i","d","e","d"," ","f","o","r"," ","l","e","g","a","l"," ","a","n","a","l",
             "y","s","i","s","." >>,
      LEGAL_TOO_SHORT |->
          \* "Contract too short for legal analysis."
          << "C","o","n","t","r","a","c","t"," ","t","o","o"," ","s","h","o","r","t"," ","f",
             "o","r"," ","l","e","g","a","l"," ","a","n","a","l","y","s","i","s","." >>,
      LEGAL_PROMPT_HEAD |->
          \* "\nYou are an ELITE CORPORATE LAWYER AI.\n"
          << "\n","Y","o","u"," ","a","r","e"," ","a","n"," ","E","L","I","T","E"," ","C","O",
             "R","P","O","R","A","T","E"," ","L","A","W","Y","E","R"," ","A","I",".","\n" >>,
      PROMPT_CONTRACT |->
          \* "\nCONTRACT:\n"
          << "\n","C","O","N","T","R","A","C","T",":","\n" >>,
      LEGAL_FB_LEVEL |->
          \* "\nLEGAL RISK LEVEL: "
          << "\n","L","E","G","A","L"," ","R","I","S","K"," ","L","E","V","E","L",":"," " >>,
      LEGAL_FB_RISKS |->
          \* "\n\nCRITICAL LEGAL RISKS:\n- "
          << "\n","\n","C","R","I","T","I","C","A","L"," ","L","E","G","A","L"," ","R","I","S",
             "K","S",":","\n","-"," " >>,
      FB_BULLET |->
          \* "\n- "
          << "\n","-"," " >>,
      LEGAL_FB_TAIL |->
          \* "\n\nMISSING OR WEAK CLAUSES:\n- Liability cap unclear\n- Indemnity protection weak\n- Jurisdiction clarity needed\n\nLIABILITY & TERMINATION INSIGHT:\nContract contains basic structure but may expose one party to legal risk.\n\nFINAL LEGAL VERDICT:\nLegal review recommended before signing.\n"
          << "\n","\n","M","I","S","S","I","N","G"," ","O","R"," ","W","E","A","K"," ","C","L",
             "A","U","S","E","S",":","\n","-"," ","L","i","a","b","i","l","i","t","y"," ","c",
             "a","p"," ","u","n","c","l","e","a","r","\n","-"," ","I","n","d","e","m","n","i",
             "t","y"," ","p","r","o","t","e","c","t","i","o","n"," ","w","e","a","k","\n","-",
             " ","J","u","r","i","s","d","i","c","t","i","o","n"," ","c","l","a","r","i","t",
             "y"," ","n","e","e","d","e","d","\n","\n","L","I","A","B","I","L","I","T","Y"," ",
             "&"," ","T","E","R","M","I","N","A","T","I","O","N"," ","I","N","S","I","G","H",
             "T",":","\n","C","o","n","t","r","a","c","t"," ","c","o","n","t","a","i","n","s",
             " ","b","a","s","i","c"," ","s","t","r","u","c","t","u","r","e"," ","b","u","t",
             " ","m","a","y"," ","e","x","p","o","s","e"," ","o","n","e"," ","p","a","r","t",
             "y"," ","t","o"," ","l","e","g","a","l"," ","r","i","s","k",".","\n","\n","F","I",
             "N","A","L"," ","L","E","G","A","L"," ","V","E","R","D","I","C","T",":","\n","L",
             "e","g","a","l"," ","r","e","v","i","e","w"," ","r","e","c","o","m","m","e","n",
             "d","e","d"," ","b","e","f","o","r","e"," ","s","i","g","n","i","n","g",".","\n" >>,
      KW_TERMINATION |->
          \* "termination"
          << "t","e","r","m","i","n","a","t","i","o","n" >>,
      KW_LIABILITY |->
          \* "liability"
          << "l","i","a","b","i","l","i","t","y" >>,
      KW_INDEMN |->
          \* "indemn"
          << "i","n","d","e","m","n" >>,
      KW_JURISDICTION |->
          \* "jurisdiction"
          << "j","u","r","i","s","d","i","c","t","i","o","n" >>,
      KW_GOVERNING_LAW |->
          \* "governing law"
          << "g","o","v","e","r","n","i","n","g"," ","l","a","w" >>,
      KW_INDIAN_CONTRACT_ACT |->
          \* "indian contract act"
          << "i","n","d","i","a","n"," ","c","o","n","t","r","a","c","t"," ","a","c","t" >>,
      KW_GOVERNED_BY |->
          \* "governed by "
          << "g","o","v","e","r","n","e","d"," ","b","y"," " >>,
      NOTICE_APPEARS |->
          \* "Termination notice appears "
          << "T","e","r","m","i","n","a","t","i","o","n"," ","n","o","t","i","c","e"," ","a",
             "p","p","e","a","r","s"," " >>,
      NOTICE_DAYS |->
          \* " days."
          << " ","d","a","y","s","." >>,
      NOTICE_UNDEFINED |->
          \* "Termination notice not clearly defined."
          << "T","e","r","m","i","n","a","t","i","o","n"," ","n","o","t","i","c","e"," ","n",
             "o","t"," ","c","l","e","a","r","l","y"," ","d","e","f","i","n","e","d","." >>,
      LAW_INDIAN |->
          \* "Governed by Indian Contract Act."
          << "G","o","v","e","r","n","e","d"," ","b","y"," ","I","n","d","i","a","n"," ","C",
             "o","n","t","r","a","c","t"," ","A","c","t","." >>,
      LAW_APPEARS |->
          \* "Governing law appears "
          << "G","o","v","e","r","n","i","n","g"," ","l","a","w"," ","a","p","p","e","a","r",
             "s"," " >>,
      LAW_UNDEFINED |->
          \* "Governing law not clearly mentioned."
          << "G","o","v","e","r","n","i","n","g"," ","l","a","w"," ","n","o","t"," ","c","l",
             "e","a","r","l","y"," ","m","e","n","t","i","o","n","e","d","." >>,
      RE_BACKSLASH_D |->
          \* "\\d"
          << "\\","d" >>,
      RE_DAY |->
          \* "day"
          << "d","a","y" >>,
      RE_WRITTEN |->
          \* "written"
          << "w","r","i","t","t","e","n" >>,
      RE_NOTICE |->
          \* "notice"
          << "n","o","t","i","c","e" >> ]

\* The three risk levels.
RiskLevels ==
    [ LEVEL_LOW |->
          \* "Low"
          << "L","o","w" >>,
      LEVEL_MEDIUM |->
          \* "Medium"
          << "M","e","d","i","u","m" >>,
      LEVEL_HIGH |->
          \* "High"
          << "H","i","g","h" >> ]

\* String literals of agents_llm/finance_agent.py.
FinanceText ==
    [ FINANCE_NO_TEXT |->
          \* "No financial content found."
          << "N","o"," ","f","i","n","a","n","c","i","a","l"," ","c","o","n","t","e","n","t",
             " ","f","o","u","n","d","." >>,
      FINANCE_TOO_SHORT |->
          \* "Contract too short for financial analysis."
          << "C","o","n","t","r","a","c","t"," ","t","o","o"," ","s","h","o","r","t"," ","f",
             "o","r"," ","f","i","n","a","n","c","i","a","l"," ","a","n","a","l","y","s","i",
             "s","." >>,
      FINANCE_PROMPT_HEAD |->
          \* "\nYou are a SENIOR CONTRACT FINANCIAL ANALYST AI.\n"
          << "\n","Y","o","u"," ","a","r","e"," ","a"," ","S","E","N","I","O","R"," ","C","O",
             "N","T","R","A","C","T"," ","F","I","N","A","N","C","I","A","L"," ","A","N","A",
             "L","Y","S","T"," ","A","I",".","\n" >>,
      FIN_FB_HEAD |->
          \* "\nFINANCIAL RISK LEVEL: Medium\n\nPAYMENT TERMS:\n- "
          << "\n","F","I","N","A","N","C","I","A","L"," ","R","I","S","K"," ","L","E","V","E",
             "L",":"," ","M","e","d","i","u","m","\n","\n","P","A","Y","M","E","N","T"," ","T",
             "E","R","M","S",":","\n","-"," " >>,
      FIN_FB_PENALTIES |->
          \* "\n\nPENALTIES/LOSSES:\n- "
          << "\n","\n","P","E","N","A","L","T","I","E","S","/","L","O","S","S","E","S",":","\n",
             "-"," " >>,
      FIN_FB_EXPOSURE |->
          \* "\n- Interest/late fee clarity needed\n\nFINANCIAL EXPOSURE:\nMedium "
          << "\n","-"," ","I","n","t","e","r","e","s","t","/","l","a","t","e"," ","f","e","e",
             " ","c","l","a","r","i","t","y"," ","n","e","e","d","e","d","\n","\n","F","I","N",
             "A","N","C","I","A","L"," ","E","X","P","O","S","U","R","E",":","\n","M","e","d",
             "i","u","m"," " >>,
      FIN_FB_TAIL |->
          \* "\n\nFINAL VERDICT:\nContract contains financial structure but requires clearer liability and payment protections.\n"
          << "\n","\n","F","I","N","A","L"," ","V","E","R","D","I","C","T",":","\n","C","o","n",
             "t","r","a","c","t"," ","c","o","n","t","a","i","n","s"," ","f","i","n","a","n",
             "c","i","a","l"," ","s","t","r","u","c","t","u","r","e"," ","b","u","t"," ","r",
             "e","q","u","i","r","e","s"," ","c","l","e","a","r","e","r"," ","l","i","a","b",
             "i","l","i","t","y"," ","a","n","d"," ","p","a","y","m","e","n","t"," ","p","r",
             "o","t","e","c","t","i","o","n","s",".","\n" >>,
      KW_PAYMENT |->
          \* "payment"
          << "p","a","y","m","e","n","t" >>,
      KW_INVOICE |->
          \* "invoice"
          << "i","n","v","o","i","c","e" >>,
      KW_PENALTY |->
          \* "penalty"
          << "p","e","n","a","l","t","y" >>,
      KW_LATE_FEE |->
          \* "late fee"
          << "l","a","t","e"," ","f","e","e" >>,
      FIN_PAYMENT_YES |->
          \* "Payment terms detected."
          << "P","a","y","m","e","n","t"," ","t","e","r","m","s"," ","d","e","t","e","c","t",
             "e","d","." >>,
      FIN_PAYMENT_NO |->
          \* "Payment schedule unclear."
          << "P","a","y","m","e","n","t"," ","s","c","h","e","d","u","l","e"," ","u","n","c",
             "l","e","a","r","." >>,
      FIN_PENALTY_YES |->
          \* "Penalty clauses present."
          << "P","e","n","a","l","t","y"," ","c","l","a","u","s","e","s"," ","p","r","e","s",
             "e","n","t","." >>,
      FIN_PENALTY_NO |->
          \* "Penalty terms missing."
          << "P","e","n","a","l","t","y"," ","t","e","r","m","s"," ","m","i","s","s","i","n",
             "g","." >>,
      FIN_LIABILITY_YES |->
          \* "Liability cap present."
          << "L","i","a","b","i","l","i","t","y"," ","c","a","p"," ","p","r","e","s","e","n",
             "t","." >>,
      FIN_LIABILITY_NO |->
          \* "No clear liability cap."
          << "N","o"," ","c","l","e","a","r"," ","l","i","a","b","i","l","i","t","y"," ","c",
             "a","p","." >>,
      FIN_AMOUNTS |->
          \* "Monetary values detected: "
          << "M","o","n","e","t","a","r","y"," ","v","a","l","u","e","s"," ","d","e","t","e",
             "c","t","e","d",":"," " >>,
      FIN_NO_AMOUNTS |->
          \* "No clear monetary value."
          << "N","o"," ","c","l","e","a","r"," ","m","o","n","e","t","a","r","y"," ","v","a",
             "l","u","e","." >>,
      FIN_DUE |->
          \* "Payment due within "
          << "P","a","y","m","e","n","t"," ","d","u","e"," ","w","i","t","h","i","n"," " >>,
      FIN_NO_DUE |->
          \* "No clear payment due window."
          << "N","o"," ","c","l","e","a","r"," ","p","a","y","m","e","n","t"," ","d","u","e",
             " ","w","i","n","d","o","w","." >>,
      RE_USD |->
          \* "USD"
          << "U","S","D" >>,
      RE_INR |->
          \* "INR"
          << "I","N","R" >>,
      RE_WITHIN |->
          \* "within"
          << "w","i","t","h","i","n" >>,
      RE_NET |->
          \* "net"
          << "n","e","t" >>,
      RE_DAYS |->
          \* "days"
          << "d","a","y","s" >> ]

\* String literals of agents_llm/compliance_agent.py.
ComplianceText ==
    [ COMPLIANCE_NO_TEXT |->
          \* "No compliance content found."
          << "N","o"," ","c","o","m","p","l","i","a","n","c","e"," ","c","o","n","t","e","n",
             "t"," ","f","o","u","n","d","." >>,
      COMPLIANCE_TOO_SHORT |->
          \* "Contract too short for compliance analysis."
          << "C","o","n","t","r","a","c","t"," ","t","o","o"," ","s","h","o","r","t"," ","f",
             "o","r"," ","c","o","m","p","l","i","a","n","c","e"," ","a","n","a","l","y","s",
             "i","s","." >>,
      COMPLIANCE_PROMPT_HEAD |->
          \* "\nYou are a GLOBAL CONTRACT COMPLIANCE AI.\n"
          << "\n","Y","o","u"," ","a","r","e"," ","a"," ","G","L","O","B","A","L"," ","C","O",
             "N","T","R","A","C","T"," ","C","O","M","P","L","I","A","N","C","E"," ","A","I",
             ".","\n" >>,
      CMP_FB_HEAD |->
          \* "\nCOMPLIANCE RISK LEVEL: Medium\n\nDATA PRIVACY ISSUES:\n- "
          << "\n","C","O","M","P","L","I","A","N","C","E"," ","R","I","S","K"," ","L","E","V",
             "E","L",":"," ","M","e","d","i","u","m","\n","\n","D","A","T","A"," ","P","R","I",
             "V","A","C","Y"," ","I","S","S","U","E","S",":","\n","-"," " >>,
      CMP_FB_REGULATORY |->
          \* "\n\nREGULATORY RISKS:\n- "
          << "\n","\n","R","E","G","U","L","A","T","O","R","Y"," ","R","I","S","K","S",":","\n",
             "-"," " >>,
      CMP_FB_MISSING |->
          \* "\n- Jurisdiction clarity needed\n\nMISSING COMPLIANCE:\n- "
          << "\n","-"," ","J","u","r","i","s","d","i","c","t","i","o","n"," ","c","l","a","r",
             "i","t","y"," ","n","e","e","d","e","d","\n","\n","M","I","S","S","I","N","G"," ",
             "C","O","M","P","L","I","A","N","C","E",":","\n","-"," " >>,
      CMP_FB_SECURITY |->
          \* "\n- Security standards missing\n- "
          << "\n","-"," ","S","e","c","u","r","i","t","y"," ","s","t","a","n","d","a","r","d",
             "s"," ","m","i","s","s","i","n","g","\n","-"," " >>,
      CMP_FB_TAIL |->
          \* "\n\nFINAL VERDICT:\nContract contains basic compliance but needs stronger regulatory clarity.\n"
          << "\n","\n","F","I","N","A","L"," ","V","E","R","D","I","C","T",":","\n","C","o","n",
             "t","r","a","c","t"," ","c","o","n","t","a","i","n","s"," ","b","a","s","i","c",
             " ","c","o","m","p","l","i","a","n","c","e"," ","b","u","t"," ","n","e","e","d",
             "s"," ","s","t","r","o","n","g","e","r"," ","r","e","g","u","l","a","t","o","r",
             "y"," ","c","l","a","r","i","t","y",".","\n" >>,
      KW_DATA |->
          \* "data"
          << "d","a","t","a" >>,
      KW_PRIVACY |->
          \* "privacy"
          << "p","r","i","v","a","c","y" >>,
      KW_GDPR |->
          \* "gdpr"
          << "g","d","p","r" >>,
      KW_PERSONAL_INFORMATION |->
          \* "personal information"
          << "p","e","r","s","o","n","a","l"," ","i","n","f","o","r","m","a","t","i","o","n" >>,
      KW_LAW |->
          \* "law"
          << "l","a","w" >>,
      KW_COMPLIANCE |->
          \* "compliance"
          << "c","o","m","p","l","i","a","n","c","e" >>,
      KW_GST |->
          \* "gst"
          << "g","s","t" >>,
      KW_AUDIT |->
          \* "audit"
          << "a","u","d","i","t" >>,
      CMP_PRIVACY_YES |->
          \* "Data protection clause present."
          << "D","a","t","a"," ","p","r","o","t","e","c","t","i","o","n"," ","c","l","a","u",
             "s","e"," ","p","r","e","s","e","n","t","." >>,
      CMP_PRIVACY_NO |->
          \* "No strong data protection clause."
          << "N","o"," ","s","t","r","o","n","g"," ","d","a","t","a"," ","p","r","o","t","e",
             "c","t","i","o","n"," ","c","l","a","u","s","e","." >>,
      CMP_REGULATORY_YES |->
          \* "Regulatory references detected."
          << "R","e","g","u","l","a","t","o","r","y"," ","r","e","f","e","r","e","n","c","e",
             "s"," ","d","e","t","e","c","t","e","d","." >>,
      CMP_REGULATORY_NO |->
          \* "Regulatory clarity missing."
          << "R","e","g","u","l","a","t","o","r","y"," ","c","l","a","r","i","t","y"," ","m",
             "i","s","s","i","n","g","." >>,
      CMP_AUDIT_YES |->
          \* "Audit clause present."
          << "A","u","d","i","t"," ","c","l","a","u","s","e"," ","p","r","e","s","e","n","t","." >>,
      CMP_AUDIT_NO |->
          \* "Audit clause missing."
          << "A","u","d","i","t"," ","c","l","a","u","s","e"," ","m","i","s","s","i","n","g","." >>,
      CMP_BREACH |->
          \* "Breach notice: "
          << "B","r","e","a","c","h"," ","n","o","t","i","c","e",":"," " >>,
      CMP_NO_BREACH |->
          \* "No breach notification timeline."
          << "N","o"," ","b","r","e","a","c","h"," ","n","o","t","i","f","i","c","a","t","i",
             "o","n"," ","t","i","m","e","l","i","n","e","." >>,
      CMP_RETENTION |->
          \* "Retention defined: "
          << "R","e","t","e","n","t","i","o","n"," ","d","e","f","i","n","e","d",":"," " >>,
      CMP_NO_RETENTION |->
          \* "No retention period defined."
          << "N","o"," ","r","e","t","e","n","t","i","o","n"," ","p","e","r","i","o","d"," ",
             "d","e","f","i","n","e","d","." >>,
      RE_NOTIFY |->
          \* "notify"
          << "n","o","t","i","f","y" >>,
      RE_NOTIFICATION |->
          \* "notification"
          << "n","o","t","i","f","i","c","a","t","i","o","n" >>,
      RE_RETAIN |->
          \* "retain"
          << "r","e","t","a","i","n" >>,
      RE_RETENTION |->
          \* "retention"
          << "r","e","t","e","n","t","i","o","n" >>,
      RE_YEAR |->
          \* "year"
          << "y","e","a","r" >>,
      RE_MONTH |->
          \* "month"
          << "m","o","n","t","h" >> ]

\* String literals of agents_llm/operations_agent.py.
OperationsText ==
    [ OPS_NO_TEXT |->
          \* "No operational risk identified."
          << "N","o"," ","o","p","e","r","a","t","i","o","n","a","l"," ","r","i","s","k"," ",
             "i","d","e","n","t","i","f","i","e","d","." >>,
      OPS_TOO_SHORT |->
          \* "Clause too short for operational analysis."
          << "C","l","a","u","s","e"," ","t","o","o"," ","s","h","o","r","t"," ","f","o","r",
             " ","o","p","e","r","a","t","i","o","n","a","l"," ","a","n","a","l","y","s","i",
             "s","." >>,
      OPS_PROMPT_HEAD |->
          \* "\nYou are an OPERATIONS RISK ANALYST AI.\n"
          << "\n","Y","o","u"," ","a","r","e"," ","a","n"," ","O","P","E","R","A","T","I","O",
             "N","S"," ","R","I","S","K"," ","A","N","A","L","Y","S","T"," ","A","I",".","\n" >>,
      PROMPT_CLAUSE |->
          \* "\nCLAUSE:\n"
          << "\n","C","L","A","U","S","E",":","\n" >>,
      KW_DELAY |->
          \* "delay"
          << "d","e","l","a","y" >>,
      KW_TIMELINE |->
          \* "timeline"
          << "t","i","m","e","l","i","n","e" >>,
      KW_DELIVERY |->
          \* "delivery"
          << "d","e","l","i","v","e","r","y" >>,
      KW_RESPONSIBILITY |->
          \* "responsibility"
          << "r","e","s","p","o","n","s","i","b","i","l","i","t","y" >>,
      KW_PARTY_SHALL |->
          \* "party shall"
          << "p","a","r","t","y"," ","s","h","a","l","l" >>,
      KW_APPROVAL |->
          \* "approval"
          << "a","p","p","r","o","v","a","l" >>,
      KW_CONSENT |->
          \* "consent"
          << "c","o","n","s","e","n","t" >>,
      KW_DEPENDENCY |->
          \* "dependency"
          << "d","e","p","e","n","d","e","n","c","y" >>,
      KW_THIRD_PARTY |->
          \* "third party"
          << "t","h","i","r","d"," ","p","a","r","t","y" >>,
      OPS_FB_TIMELINE |->
          \* "Timeline dependency may create delivery or execution risk."
          << "T","i","m","e","l","i","n","e"," ","d","e","p","e","n","d","e","n","c","y"," ",
             "m","a","y"," ","c","r","e","a","t","e"," ","d","e","l","i","v","e","r","y"," ",
             "o","r"," ","e","x","e","c","u","t","i","o","n"," ","r","i","s","k","." >>,
      OPS_FB_RESPONSIBILITY |->
          \* "Unclear responsibility allocation may cause operational disputes."
          << "U","n","c","l","e","a","r"," ","r","e","s","p","o","n","s","i","b","i","l","i",
             "t","y"," ","a","l","l","o","c","a","t","i","o","n"," ","m","a","y"," ","c","a",
             "u","s","e"," ","o","p","e","r","a","t","i","o","n","a","l"," ","d","i","s","p",
             "u","t","e","s","." >>,
      OPS_FB_APPROVAL |->
          \* "Approval dependency may delay execution."
          << "A","p","p","r","o","v","a","l"," ","d","e","p","e","n","d","e","n","c","y"," ",
             "m","a","y"," ","d","e","l","a","y"," ","e","x","e","c","u","t","i","o","n","." >>,
      OPS_FB_THIRD_PARTY |->
          \* "Third-party dependency may create execution risk."
          << "T","h","i","r","d","-","p","a","r","t","y"," ","d","e","p","e","n","d","e","n",
             "c","y"," ","m","a","y"," ","c","r","e","a","t","e"," ","e","x","e","c","u","t",
             "i","o","n"," ","r","i","s","k","." >>,
      OPS_FB_DEFAULT |->
          \* "Operational responsibilities and timelines should be clearly defined."
          << "O","p","e","r","a","t","i","o","n","a","l"," ","r","e","s","p","o","n","s","i",
             "b","i","l","i","t","i","e","s"," ","a","n","d"," ","t","i","m","e","l","i","n",
             "e","s"," ","s","h","o","u","l","d"," ","b","e"," ","c","l","e","a","r","l","y",
             " ","d","e","f","i","n","e","d","." >> ]

\* String literals of agents_llm/summary_agent.py.
SummaryText ==
    [ SUMMARY_NO_CONTRACT |->
          \* "No contract provided"
          << "N","o"," ","c","o","n","t","r","a","c","t"," ","p","r","o","v","i","d","e","d" >>,
      TYPE_GENERAL |->
          \* "General"
          << "G","e","n","e","r","a","l" >>,
      SUMMARY_PROMPT_HEAD |->
          \* "\nYou are a CHIEF CONTRACT ANALYSIS AI.\n\nGenerate a PROFESSIONAL FINAL CONTRACT REPORT.\n"
          << "\n","Y","o","u"," ","a","r","e"," ","a"," ","C","H","I","E","F"," ","C","O","N",
             "T","R","A","C","T"," ","A","N","A","L","Y","S","I","S"," ","A","I",".","\n","\n",
             "G","e","n","e","r","a","t","e"," ","a"," ","P","R","O","F","E","S","S","I","O",
             "N","A","L"," ","F","I","N","A","L"," ","C","O","N","T","R","A","C","T"," ","R",
             "E","P","O","R","T",".","\n" >>,
      PROMPT_LEGAL |->
          \* "\nLEGAL:\n"
          << "\n","L","E","G","A","L",":","\n" >>,
      PROMPT_FINANCE |->
          \* "\n\nFINANCE:\n"
          << "\n","\n","F","I","N","A","N","C","E",":","\n" >>,
      PROMPT_COMPLIANCE |->
          \* "\n\nCOMPLIANCE:\n"
          << "\n","\n","C","O","M","P","L","I","A","N","C","E",":","\n" >>,
      PROMPT_OPERATIONS |->
          \* "\n\nOPERATIONS:\n"
          << "\n","\n","O","P","E","R","A","T","I","O","N","S",":","\n" >>,
      SUMMARY_FB_HEAD |->
          \* "\nFINAL CONTRACT INTELLIGENCE REPORT\n\nContract Type: "
          << "\n","F","I","N","A","L"," ","C","O","N","T","R","A","C","T"," ","I","N","T","E",
             "L","L","I","G","E","N","C","E"," ","R","E","P","O","R","T","\n","\n","C","o","n",
             "t","r","a","c","t"," ","T","y","p","e",":"," " >>,
      SUMMARY_FB_LEGAL |->
          \* "\n\nOVERALL RISK: Medium (Fallback Analysis)\n\nLEGAL:\n"
          << "\n","\n","O","V","E","R","A","L","L"," ","R","I","S","K",":"," ","M","e","d","i",
             "u","m"," ","(","F","a","l","l","b","a","c","k"," ","A","n","a","l","y","s","i",
             "s",")","\n","\n","L","E","G","A","L",":","\n" >>,
      SUMMARY_FB_FINANCIAL |->
          \* "\n\nFINANCIAL:\n"
          << "\n","\n","F","I","N","A","N","C","I","A","L",":","\n" >>,
      SUMMARY_FB_COMPLIANCE |->
          \* "\n\nCOMPLIANCE:\n"
          << "\n","\n","C","O","M","P","L","I","A","N","C","E",":","\n" >>,
      SUMMARY_FB_TAIL |->
          \* "\n\nFINAL DECISION:\nContract requires careful review before signing.\n"
          << "\n","\n","F","I","N","A","L"," ","D","E","C","I","S","I","O","N",":","\n","C","o",
             "n","t","r","a","c","t"," ","r","e","q","u","i","r","e","s"," ","c","a","r","e",
             "f","u","l"," ","r","e","v","i","e","w"," ","b","e","f","o","r","e"," ","s","i",
             "g","n","i","n","g",".","\n" >> ]

\* String literals of report/final_report.py.
ReportText ==
    [ TYPE_CONTRACT |->
          \* "Contract"
          << "C","o","n","t","r","a","c","t" >>,
      REPORT_PROMPT_HEAD |->
          \* "\nYou are a WORLD-CLASS CONTRACT ANALYSIS AI.\n\nCreate a PROFESSIONAL FINAL CONTRACT REPORT.\n"
          << "\n","Y","o","u"," ","a","r","e"," ","a"," ","W","O","R","L","D","-","C","L","A",
             "S","S"," ","C","O","N","T","R","A","C","T"," ","A","N","A","L","Y","S","I","S",
             " ","A","I",".","\n","\n","C","r","e","a","t","e"," ","a"," ","P","R","O","F","E",
             "S","S","I","O","N","A","L"," ","F","I","N","A","L"," ","C","O","N","T","R","A",
             "C","T"," ","R","E","P","O","R","T",".","\n" >>,
      PROMPT_TYPE |->
          \* "\nContract Type: "
          << "\n","C","o","n","t","r","a","c","t"," ","T","y","p","e",":"," " >>,
      PROMPT_USER_FOCUS |->
          \* "\n\nUSER FOCUS:\n"
          << "\n","\n","U","S","E","R"," ","F","O","C","U","S",":","\n" >>,
      FOCUS_GENERAL |->
          \* "General review"
          << "G","e","n","e","r","a","l"," ","r","e","v","i","e","w" >>,
      FAILURE_MARKER |->
          \* "unavailable"
          << "u","n","a","v","a","i","l","a","b","l","e" >>,
      REPORT_FB_HEAD |->
          \* "\n====================================\nFINAL CONTRACT INTELLIGENCE REPORT\n====================================\n\nContract Type: "
          << "\n","=","=","=","=","=","=","=","=","=","=","=","=","=","=","=","=","=","=","=",
             "=","=","=","=","=","=","=","=","=","=","=","=","=","=","=","=","=","\n","F","I",
             "N","A","L"," ","C","O","N","T","R","A","C","T"," ","I","N","T","E","L","L","I",
             "G","E","N","C","E"," ","R","E","P","O","R","T","\n","=","=","=","=","=","=","=",
             "=","=","=","=","=","=","=","=","=","=","=","=","=","=","=","=","=","=","=","=",
             "=","=","=","=","=","=","=","=","=","\n","\n","C","o","n","t","r","a","c","t"," ",
             "T","y","p","e",":"," " >>,
      REPORT_FB_RISK |->
          \* "\n\nOVERALL RISK LEVEL: "
          << "\n","\n","O","V","E","R","A","L","L"," ","R","I","S","K"," ","L","E","V","E","L",
             ":"," " >>,
      REPORT_FB_SUMMARY |->
          \* "%)\n\n------------------------------------\nEXECUTIVE SUMMARY:\n"
          << "%",")","\n","\n","-","-","-","-","-","-","-","-","-","-","-","-","-","-","-","-",
             "-","-","-","-","-","-","-","-","-","-","-","-","-","-","-","-","-","-","-","-",
             "\n","E","X","E","C","U","T","I","V","E"," ","S","U","M","M","A","R","Y",":","\n" >>,
      REPORT_FB_LEGAL |->
          \* "\n\n------------------------------------\nLEGAL:\n"
          << "\n","\n","-","-","-","-","-","-","-","-","-","-","-","-","-","-","-","-","-","-",
             "-","-","-","-","-","-","-","-","-","-","-","-","-","-","-","-","-","-","\n","L",
             "E","G","A","L",":","\n" >>,
      REPORT_FB_FINANCE |->
          \* "\n\n------------------------------------\nFINANCE:\n"
          << "\n","\n","-","-","-","-","-","-","-","-","-","-","-","-","-","-","-","-","-","-",
             "-","-","-","-","-","-","-","-","-","-","-","-","-","-","-","-","-","-","\n","F",
             "I","N","A","N","C","E",":","\n" >>,
      REPORT_FB_COMPLIANCE |->
          \* "\n\n------------------------------------\nCOMPLIANCE:\n"
          << "\n","\n","-","-","-","-","-","-","-","-","-","-","-","-","-","-","-","-","-","-",
             "-","-","-","-","-","-","-","-","-","-","-","-","-","-","-","-","-","-","\n","C",
             "O","M","P","L","I","A","N","C","E",":","\n" >>,
      REPORT_FB_TAIL |->
          \* "\n\n------------------------------------\nFINAL DECISION:\nReview recommended before signing.\n\n====================================\n"
          << "\n","\n","-","-","-","-","-","-","-","-","-","-","-","-","-","-","-","-","-","-",
             "-","-","-","-","-","-","-","-","-","-","-","-","-","-","-","-","-","-","\n","F",
             "I","N","A","L"," ","D","E","C","I","S","I","O","N",":","\n","R","e","v","i","e",
             "w"," ","r","e","c","o","m","m","e","n","d","e","d"," ","b","e","f","o","r","e",
             " ","s","i","g","n","i","n","g",".","\n","\n","=","=","=","=","=","=","=","=","=",
             "=","=","=","=","=","=","=","=","=","=","=","=","=","=","=","=","=","=","=","=",
             "=","=","=","=","=","=","=","\n" >>,
      CLEAN_NO_ISSUES |->
          \* "No issues detected."
          << "N","o"," ","i","s","s","u","e","s"," ","d","e","t","e","c","t","e","d","." >>,
      NAME_LEGAL |->
          \* "Legal"
          << "L","e","g","a","l" >>,
      NAME_FINANCE |->
          \* "Finance"
          << "F","i","n","a","n","c","e" >>,
      NAME_COMPLIANCE |->
          \* "Compliance"
          << "C","o","m","p","l","i","a","n","c","e" >>,
      NO_DATA |->
          \* "No data"
          << "N","o"," ","d","a","t","a" >> ]

\* String literals of utils/risk_formatter.py.
FormatterText ==
    [ SUMMARY_THIS |->
          \* "This "
          << "T","h","i","s"," " >>,
      SUMMARY_ASSESSED |->
          \* " has been assessed as "
          << " ","h","a","s"," ","b","e","e","n"," ","a","s","s","e","s","s","e","d"," ","a",
             "s"," " >>,
      SUMMARY_BASED |->
          \* " risk based on analysis from "
          << " ","r","i","s","k"," ","b","a","s","e","d"," ","o","n"," ","a","n","a","l","y",
             "s","i","s"," ","f","r","o","m"," " >>,
      SUMMARY_REST |->
          \* ". Key legal exposure, financial obligations, compliance requirements, and operational terms should be carefully reviewed before signing or approval."
          << "."," ","K","e","y"," ","l","e","g","a","l"," ","e","x","p","o","s","u","r","e",
             ","," ","f","i","n","a","n","c","i","a","l"," ","o","b","l","i","g","a","t","i",
             "o","n","s",","," ","c","o","m","p","l","i","a","n","c","e"," ","r","e","q","u",
             "i","r","e","m","e","n","t","s",","," ","a","n","d"," ","o","p","e","r","a","t",
             "i","o","n","a","l"," ","t","e","r","m","s"," ","s","h","o","u","l","d"," ","b",
             "e"," ","c","a","r","e","f","u","l","l","y"," ","r","e","v","i","e","w","e","d",
             " ","b","e","f","o","r","e"," ","s","i","g","n","i","n","g"," ","o","r"," ","a",
             "p","p","r","o","v","a","l","." >>,
      SUMMARY_AI |->
          \* "AI analysis"
          << "A","I"," ","a","n","a","l","y","s","i","s" >> ]

\* String literals of utils/risk_score.py.
RiskText ==
    [ HR_UNLIMITED_LIABILITY |->
          \* "unlimited liability"
          << "u","n","l","i","m","i","t","e","d"," ","l","i","a","b","i","l","i","t","y" >>,
      HR_UNLIMITED_INDEMN |->
          \* "unlimited indemn"
          << "u","n","l","i","m","i","t","e","d"," ","i","n","d","e","m","n" >>,
      HR_PERPETUAL |->
          \* "perpetual"
          << "p","e","r","p","e","t","u","a","l" >>,
      HR_IRREVOCABLE |->
          \* "irrevocable"
          << "i","r","r","e","v","o","c","a","b","l","e" >>,
      HR_LIQUIDATED_DAMAGES |->
          \* "liquidated damages"
          << "l","i","q","u","i","d","a","t","e","d"," ","d","a","m","a","g","e","s" >>,
      HR_SOLE_DISCRETION |->
          \* "sole discretion"
          << "s","o","l","e"," ","d","i","s","c","r","e","t","i","o","n" >>,
      HR_WAIVE |->
          \* "waive"
          << "w","a","i","v","e" >>,
      MR_TERMINATION |->
          \* "termination"
          << "t","e","r","m","i","n","a","t","i","o","n" >>,
      MR_BREACH |->
          \* "breach"
          << "b","r","e","a","c","h" >>,
      MR_PENALTY |->
          \* "penalty"
          << "p","e","n","a","l","t","y" >>,
      MR_INTEREST |->
          \* "interest"
          << "i","n","t","e","r","e","s","t" >>,
      MR_INDEMNITY |->
          \* "indemnity"
          << "i","n","d","e","m","n","i","t","y" >>,
      MR_CONFIDENTIAL |->
          \* "confidential"
          << "c","o","n","f","i","d","e","n","t","i","a","l" >>,
      MR_NON_COMPETE |->
          \* "non-compete"
          << "n","o","n","-","c","o","m","p","e","t","e" >>,
      MR_NON_SOLICITATION |->
          \* "non solicitation"
          << "n","o","n"," ","s","o","l","i","c","i","t","a","t","i","o","n" >>,
      MR_ASSIGNMENT |->
          \* "assignment"
          << "a","s","s","i","g","n","m","e","n","t" >>,
      MR_AUTO_RENEW |->
          \* "auto-renew"
          << "a","u","t","o","-","r","e","n","e","w" >>,
      PR_LIABILITY_CAP |->
          \* "liability cap"
          << "l","i","a","b","i","l","i","t","y"," ","c","a","p" >>,
      PR_LIMITED_LIABILITY |->
          \* "limited liability"
          << "l","i","m","i","t","e","d"," ","l","i","a","b","i","l","i","t","y" >>,
      PR_GOVERNING_LAW |->
          \* "governing law"
          << "g","o","v","e","r","n","i","n","g"," ","l","a","w" >>,
      PR_ARBITRATION |->
          \* "arbitration"
          << "a","r","b","i","t","r","a","t","i","o","n" >>,
      PR_NOTICE_PERIOD |->
          \* "notice period"
          << "n","o","t","i","c","e"," ","p","e","r","i","o","d" >>,
      PR_DATA_PROTECTION |->
          \* "data protection"
          << "d","a","t","a"," ","p","r","o","t","e","c","t","i","o","n" >>,
      PR_ENCRYPTED |->
          \* "encrypted"
          << "e","n","c","r","y","p","t","e","d" >>,
      PR_BACKUP |->
          \* "backup"
          << "b","a","c","k","u","p" >>,
      NEG_NO |->
          \* "no "
          << "n","o"," " >>,
      NEG_NOT |->
          \* "not "
          << "n","o","t"," " >>,
      NEG_WITHOUT |->
          \* "without "
          << "w","i","t","h","o","u","t"," " >>,
      NEG_ABSENCE_OF |->
          \* "absence of "
          << "a","b","s","e","n","c","e"," ","o","f"," " >>,
      RS_SCENARIO |->
          \* "This agreement includes unlimited liability and indemnity. Liquidated damages apply. Governing law is India."
          << "T","h","i","s"," ","a","g","r","e","e","m","e","n","t"," ","i","n","c","l","u",
             "d","e","s"," ","u","n","l","i","m","i","t","e","d"," ","l","i","a","b","i","l",
             "i","t","y"," ","a","n","d"," ","i","n","d","e","m","n","i","t","y","."," ","L",
             "i","q","u","i","d","a","t","e","d"," ","d","a","m","a","g","e","s"," ","a","p",
             "p","l","y","."," ","G","o","v","e","r","n","i","n","g"," ","l","a","w"," ","i",
             "s"," ","I","n","d","i","a","." >>,
      RS_WAIVE |->
          \* "Waive"
          << "W","a","i","v","e" >>,
      RS_NO_WAIVE |->
          \* "no waive"
          << "n","o"," ","w","a","i","v","e" >>,
      RS_NOT_NEAR |->
          \* "not in this or that case waive"
          << "n","o","t"," ","i","n"," ","t","h","i","s"," ","o","r"," ","t","h","a","t"," ",
             "c","a","s","e"," ","w","a","i","v","e" >>,
      RS_NOT_FAR |->
          \* "not in this or any other case waive"
          << "n","o","t"," ","i","n"," ","t","h","i","s"," ","o","r"," ","a","n","y"," ","o",
             "t","h","e","r"," ","c","a","s","e"," ","w","a","i","v","e" >>,
      RS_ONE_OF_TWO |->
          \* "no waive. in all the other cases they waive"
          << "n","o"," ","w","a","i","v","e","."," ","i","n"," ","a","l","l"," ","t","h","e",
             " ","o","t","h","e","r"," ","c","a","s","e","s"," ","t","h","e","y"," ","w","a",
             "i","v","e" >>,
      RS_TWICE |->
          \* "waive waive"
          << "w","a","i","v","e"," ","w","a","i","v","e" >>,
      RS_WITHOUT |->
          \* "WITHOUT perpetual"
          << "W","I","T","H","O","U","T"," ","p","e","r","p","e","t","u","a","l" >>,
      RS_ABSENCE |->
          \* "absence of irrevocable breach"
          << "a","b","s","e","n","c","e"," ","o","f"," ","i","r","r","e","v","o","c","a","b",
             "l","e"," ","b","r","e","a","c","h" >>,
      RS_CASINO |->
          \* "casino waive"
          << "c","a","s","i","n","o"," ","w","a","i","v","e" >>,
      RS_MEDIUM |->
          \* "breach penalty"
          << "b","r","e","a","c","h"," ","p","e","n","a","l","t","y" >>,
      RS_PROTECTED |->
          \* "liability cap, governing law, arbitration, notice period, data protection, encrypted backup"
          << "l","i","a","b","i","l","i","t","y"," ","c","a","p",","," ","g","o","v","e","r",
             "n","i","n","g"," ","l","a","w",","," ","a","r","b","i","t","r","a","t","i","o",
             "n",","," ","n","o","t","i","c","e"," ","p","e","r","i","o","d",","," ","d","a",
             "t","a"," ","p","r","o","t","e","c","t","i","o","n",","," ","e","n","c","r","y",
             "p","t","e","d"," ","b","a","c","k","u","p" >>,
      RS_SEVERE |->
          \* "unlimited liability, perpetual, irrevocable, liquidated damages, sole discretion"
          << "u","n","l","i","m","i","t","e","d"," ","l","i","a","b","i","l","i","t","y",",",
             " ","p","e","r","p","e","t","u","a","l",","," ","i","r","r","e","v","o","c","a",
             "b","l","e",","," ","l","i","q","u","i","d","a","t","e","d"," ","d","a","m","a",
             "g","e","s",","," ","s","o","l","e"," ","d","i","s","c","r","e","t","i","o","n" >>,
      RS_PLAIN |->
          \* "x"
          << "x" >> ]

\* String literals of agents/executor_agent.py.
ExecutorText ==
    [ CT_BLANK |->
          \* "   "
          << " "," "," " >>,
      CT_SHORT |->
          \* "NDA"
          << "N","D","A" >>,
      CT_17 |->
          \* "Payment in 5 days"
          << "P","a","y","m","e","n","t"," ","i","n"," ","5"," ","d","a","y","s" >>,
      CT_LONG |->
          \* " Termination needs 30 days notice. Liability is governed by Indian law; payment net 45 days of invoice, USD 5,000. "
          << " ","T","e","r","m","i","n","a","t","i","o","n"," ","n","e","e","d","s"," ","3",
             "0"," ","d","a","y","s"," ","n","o","t","i","c","e","."," ","L","i","a","b","i",
             "l","i","t","y"," ","i","s"," ","g","o","v","e","r","n","e","d"," ","b","y"," ",
             "I","n","d","i","a","n"," ","l","a","w",";"," ","p","a","y","m","e","n","t"," ",
             "n","e","t"," ","4","5"," ","d","a","y","s"," ","o","f"," ","i","n","v","o","i",
             "c","e",","," ","U","S","D"," ","5",",","0","0","0","."," " >>,
      TYPE_NDA |->
          \* "NDA"
          << "N","D","A" >>,
      TYPE_OTHER |->
          \* "Other"
          << "O","t","h","e","r" >>,
      ERR_NO_TEXT |->
          \* "No contract text provided"
          << "N","o"," ","c","o","n","t","r","a","c","t"," ","t","e","x","t"," ","p","r","o",
             "v","i","d","e","d" >> ]

\* String literals of utils/parallel_runner.py.
RunnerText ==
    [ PLACEHOLDER_ERROR |->
          \* "ERROR"
          << "E","R","R","O","R" >>,
      PLACEHOLDER_TIMEOUT |->
          \* "TIMEOUT"
          << "T","I","M","E","O","U","T" >>,
      VALUE_LEGAL |->
          \* "legal ok"
          << "l","e","g","a","l"," ","o","k" >>,
      VALUE_FINANCE |->
          \* "finance ok"
          << "f","i","n","a","n","c","e"," ","o","k" >>,
      VALUE_COMPLIANCE |->
          \* "compliance ok"
          << "c","o","m","p","l","i","a","n","c","e"," ","o","k" >>,
      VALUE_OPERATIONS |->
          \* "operations ok"
          << "o","p","e","r","a","t","i","o","n","s"," ","o","k" >> ]

\* String literals of agents/contract_classifier.py.
ClassifierText ==
    [ CAT_EMPLOYMENT |->
          \* "Employment"
          << "E","m","p","l","o","y","m","e","n","t" >>,
      CAT_NDA |->
          \* "NDA"
          << "N","D","A" >>,
      CAT_SERVICE_AGREEMENT |->
          \* "Service Agreement"
          << "S","e","r","v","i","c","e"," ","A","g","r","e","e","m","e","n","t" >>,
      CAT_VENDOR |->
          \* "Vendor"
          << "V","e","n","d","o","r" >>,
      CAT_LEASE |->
          \* "Lease"
          << "L","e","a","s","e" >>,
      CAT_PARTNERSHIP |->
          \* "Partnership"
          << "P","a","r","t","n","e","r","s","h","i","p" >>,
      CAT_HEALTHCARE |->
          \* "Healthcare"
          << "H","e","a","l","t","h","c","a","r","e" >>,
      CAT_INVESTOR |->
          \* "Investor"
          << "I","n","v","e","s","t","o","r" >>,
      CAT_DISTRIBUTOR |->
          \* "Distributor"
          << "D","i","s","t","r","i","b","u","t","o","r" >>,
      CAT_DEALER |->
          \* "Dealer"
          << "D","e","a","l","e","r" >>,
      CAT_LICENSE |->
          \* "License"
          << "L","i","c","e","n","s","e" >>,
      CAT_SAAS |->
          \* "SaaS"
          << "S","a","a","S" >>,
      CAT_CONSTRUCTION |->
          \* "Construction"
          << "C","o","n","s","t","r","u","c","t","i","o","n" >>,
      CAT_INSURANCE |->
          \* "Insurance"
          << "I","n","s","u","r","a","n","c","e" >>,
      CAT_OTHER |->
          \* "Other"
          << "O","t","h","e","r" >>,
      CAT_ALIEN |->
          \* "Alien"
          << "A","l","i","e","n" >>,
      KW_SERVICE_AGREEMENT |->
          \* "service agreement"
          << "s","e","r","v","i","c","e"," ","a","g","r","e","e","m","e","n","t" >>,
      KW_EMPLOYMENT_AGREEMENT |->
          \* "employment agreement"
          << "e","m","p","l","o","y","m","e","n","t"," ","a","g","r","e","e","m","e","n","t" >>,
      KW_NON_DISCLOSURE |->
          \* "non disclosure"
          << "n","o","n"," ","d","i","s","c","l","o","s","u","r","e" >>,
      KW_NDA |->
          \* "nda"
          << "n","d","a" >>,
      KW_LEASE_AGREEMENT |->
          \* "lease agreement"
          << "l","e","a","s","e"," ","a","g","r","e","e","m","e","n","t" >>,
      KW_INVESTMENT |->
          \* "investment"
          << "i","n","v","e","s","t","m","e","n","t" >>,
      KW_SALARY |->
          \* "salary"
          << "s","a","l","a","r","y" >>,
      KW_EMPLOYEE |->
          \* "employee"
          << "e","m","p","l","o","y","e","e" >>,
      KW_RENT |->
          \* "rent"
          << "r","e","n","t" >>,
      KW_CONFIDENTIAL |->
          \* "confidential"
          << "c","o","n","f","i","d","e","n","t","i","a","l" >>,
      CLASSIFIER_PROMPT_HEAD |->
          \* "\nClassify this contract.\n\nReturn STRICT JSON:\n"
          << "\n","C","l","a","s","s","i","f","y"," ","t","h","i","s"," ","c","o","n","t","r",
             "a","c","t",".","\n","\n","R","e","t","u","r","n"," ","S","T","R","I","C","T"," ",
             "J","S","O","N",":","\n" >>,
      PROMPT_CONTRACT_COLON |->
          \* "\nContract:\n"
          << "\n","C","o","n","t","r","a","c","t",":","\n" >>,
      JSON_CATEGORY_LEASE |->
          \* "{\"primary_category\": \" Lease \"}"
          << "{","\"","p","r","i","m","a","r","y","_","c","a","t","e","g","o","r","y","\"",":",
             " ","\""," ","L","e","a","s","e"," ","\"","}" >>,
      JSON_CATEGORY_ALIEN |->
          \* "{\"primary_category\": \"Alien\"}"
          << "{","\"","p","r","i","m","a","r","y","_","c","a","t","e","g","o","r","y","\"",":",
             " ","\"","A","l","i","e","n","\"","}" >>,
      TXT_SURE |->
          \* "Sure! "
          << "S","u","r","e","!"," " >>,
      TXT_DONE |->
          \* " Done."
          << " ","D","o","n","e","." >> ]

\* String literals of agents/clause_analyzer.py.
ClauseText ==
    [ CLAUSES_PROMPT_HEAD |->
          \* "\nExtract key clauses from contract.\n"
          << "\n","E","x","t","r","a","c","t"," ","k","e","y"," ","c","l","a","u","s","e","s",
             " ","f","r","o","m"," ","c","o","n","t","r","a","c","t",".","\n" >>,
      CLAUSE_PROMPT_HEAD |->
          \* "\nYou are a CONTRACT CLAUSE RISK ANALYZER.\n"
          << "\n","Y","o","u"," ","a","r","e"," ","a"," ","C","O","N","T","R","A","C","T"," ",
             "C","L","A","U","S","E"," ","R","I","S","K"," ","A","N","A","L","Y","Z","E","R",
             ".","\n" >>,
      PROMPT_CLAUSE_TYPE |->
          \* "\nClause Type: "
          << "\n","C","l","a","u","s","e"," ","T","y","p","e",":"," " >>,
      PROMPT_CLAUSE_COLON |->
          \* "\n\nClause:\n"
          << "\n","\n","C","l","a","u","s","e",":","\n" >>,
      JSON_CLAUSES_ONE |->
          \* "[{\"type\": \"termination\", \"text\": \" 30 days notice \"}]"
          << "[","{","\"","t","y","p","e","\"",":"," ","\"","t","e","r","m","i","n","a","t","i",
             "o","n","\"",","," ","\"","t","e","x","t","\"",":"," ","\""," ","3","0"," ","d",
             "a","y","s"," ","n","o","t","i","c","e"," ","\"","}","]" >>,
      JSON_CLAUSES_TWO |->
          \* "[{\"type\": \"liability\", \"text\": \"Unlimited liability\"}, {\"text\": \"\"}, \"n/a\"]"
          << "[","{","\"","t","y","p","e","\"",":"," ","\"","l","i","a","b","i","l","i","t","y",
             "\"",","," ","\"","t","e","x","t","\"",":"," ","\"","U","n","l","i","m","i","t",
             "e","d"," ","l","i","a","b","i","l","i","t","y","\"","}",","," ","{","\"","t","e",
             "x","t","\"",":"," ","\"","\"","}",","," ","\"","n","/","a","\"","]" >>,
      TXT_CLAUSES |->
          \* "Clauses: "
          << "C","l","a","u","s","e","s",":"," " >>,
      JSON_RISK_HIGH |->
          \* "{\"risk_score\": 90, \"risk_level\": \"High\", \"red_flags\": [\"Unlimited exposure\"]}"
          << "{","\"","r","i","s","k","_","s","c","o","r","e","\"",":"," ","9","0",","," ","\"",
             "r","i","s","k","_","l","e","v","e","l","\"",":"," ","\"","H","i","g","h","\"",",",
             " ","\"","r","e","d","_","f","l","a","g","s","\"",":"," ","[","\"","U","n","l","i",
             "m","i","t","e","d"," ","e","x","p","o","s","u","r","e","\"","]","}" >>,
      JSON_RISK_OVER |->
          \* "{\"risk_score\": 250}"
          << "{","\"","r","i","s","k","_","s","c","o","r","e","\"",":"," ","2","5","0","}" >>,
      TXT_NA |->
          \* "n/a"
          << "n","/","a" >>,
      CLAUSE_TERMINATION |->
          \* "termination"
          << "t","e","r","m","i","n","a","t","i","o","n" >>,
      CLAUSE_LIABILITY |->
          \* "liability"
          << "l","i","a","b","i","l","i","t","y" >>,
      CLAUSE_GENERAL |->
          \* "general"
          << "g","e","n","e","r","a","l" >>,
      CLAUSE_TEXT_NOTICE |->
          \* "30 days notice"
          << "3","0"," ","d","a","y","s"," ","n","o","t","i","c","e" >>,
      CLAUSE_TEXT_UNLIMITED |->
          \* "Unlimited liability"
          << "U","n","l","i","m","i","t","e","d"," ","l","i","a","b","i","l","i","t","y" >>,
      ISSUE_NO_TEXT |->
          \* "No clause text provided"
          << "N","o"," ","c","l","a","u","s","e"," ","t","e","x","t"," ","p","r","o","v","i",
             "d","e","d" >>,
      ISSUE_MANUAL |->
          \* "Manual review needed"
          << "M","a","n","u","a","l"," ","r","e","v","i","e","w"," ","n","e","e","d","e","d" >>,
      FIX_DEFAULT |->
          \* "Add clearer legal protection"
          << "A","d","d"," ","c","l","e","a","r","e","r"," ","l","e","g","a","l"," ","p","r",
             "o","t","e","c","t","i","o","n" >>,
      FLAG_UNLIMITED |->
          \* "Unlimited exposure"
          << "U","n","l","i","m","i","t","e","d"," ","e","x","p","o","s","u","r","e" >>,
      JSON_RISK_NEGATIVE |->
          \* "{\"risk_score\": -5, \"issues\": \"Vague\"}"
          << "{","\"","r","i","s","k","_","s","c","o","r","e","\"",":"," ","-","5",","," ","\"",
             "i","s","s","u","e","s","\"",":"," ","\"","V","a","g","u","e","\"","}" >>,
      JSON_RISK_WORD |->
          \* "{\"risk_score\": \"high\"}"
          << "{","\"","r","i","s","k","_","s","c","o","r","e","\"",":"," ","\"","h","i","g","h",
             "\"","}" >>,
      JSON_RISK_MISSING |->
          \* "{\"risk_level\": \"Low\"}"
          << "{","\"","r","i","s","k","_","l","e","v","e","l","\"",":"," ","\"","L","o","w",
             "\"","}" >>,
      JSON_RISK_NULL |->
          \* "{\"risk_score\": null}"
          << "{","\"","r","i","s","k","_","s","c","o","r","e","\"",":"," ","n","u","l","l","}" >>,
      JSON_RISK_TEXT |->
          \* "Here: {\"risk_score\": \" 85 \"}"
          << "H","e","r","e",":"," ","{","\"","r","i","s","k","_","s","c","o","r","e","\"",":",
             " ","\""," ","8","5"," ","\"","}" >>,
      JSON_RISK_EMPTY |->
          \* "{}"
          << "{","}" >>,
      FLAG_VAGUE |->
          \* "Vague"
          << "V","a","g","u","e" >> ]


\* String literals of agents_llm/classifier_agent.py, and texts that the two classifiers are called on.
LlmClassifierText ==
    [ LABEL_EMPLOYMENT |->
          \* "Employment"
          << "E","m","p","l","o","y","m","e","n","t" >>,
      LABEL_NDA |->
          \* "NDA"
          << "N","D","A" >>,
      LABEL_SERVICE_AGREEMENT |->
          \* "Service Agreement"
          << "S","e","r","v","i","c","e"," ","A","g","r","e","e","m","e","n","t" >>,
      LABEL_VENDOR |->
          \* "Vendor"
          << "V","e","n","d","o","r" >>,
      LABEL_LEASE |->
          \* "Lease"
          << "L","e","a","s","e" >>,
      LABEL_PARTNERSHIP |->
          \* "Partnership"
          << "P","a","r","t","n","e","r","s","h","i","p" >>,
      LABEL_HEALTHCARE |->
          \* "Healthcare"
          << "H","e","a","l","t","h","c","a","r","e" >>,
      LABEL_INVESTOR |->
          \* "Investor"
          << "I","n","v","e","s","t","o","r" >>,
      LABEL_DISTRIBUTOR |->
          \* "Distributor"
          << "D","i","s","t","r","i","b","u","t","o","r" >>,
      LABEL_DEALER |->
          \* "Dealer"
          << "D","e","a","l","e","r" >>,
      LABEL_OTHER |->
          \* "Other"
          << "O","t","h","e","r" >>,
      HEAD_SERVICE_AGREEMENT |->
          \* "service agreement"
          << "s","e","r","v","i","c","e"," ","a","g","r","e","e","m","e","n","t" >>,
      HEAD_EMPLOYMENT_AGREEMENT |->
          \* "employment agreement"
          << "e","m","p","l","o","y","m","e","n","t"," ","a","g","r","e","e","m","e","n","t" >>,
      HEAD_NON_DISCLOSURE |->
          \* "non-disclosure"
          << "n","o","n","-","d","i","s","c","l","o","s","u","r","e" >>,
      HEAD_NDA |->
          \* "nda"
          << "n","d","a" >>,
      HEAD_INVESTMENT |->
          \* "investment"
          << "i","n","v","e","s","t","m","e","n","t" >>,
      HEAD_INVESTOR |->
          \* "investor"
          << "i","n","v","e","s","t","o","r" >>,
      KW_SERVICE |->
          \* "service"
          << "s","e","r","v","i","c","e" >>,
      KW_EQUITY |->
          \* "equity"
          << "e","q","u","i","t","y" >>,
      KW_CONFIDENTIAL |->
          \* "confidential"
          << "c","o","n","f","i","d","e","n","t","i","a","l" >>,
      KW_SALARY |->
          \* "salary"
          << "s","a","l","a","r","y" >>,
      KW_EMPLOYEE |->
          \* "employee"
          << "e","m","p","l","o","y","e","e" >>,
      KW_RENT |->
          \* "rent"
          << "r","e","n","t" >>,
      KW_TENANT |->
          \* "tenant"
          << "t","e","n","a","n","t" >>,
      KW_VENDOR |->
          \* "vendor"
          << "v","e","n","d","o","r" >>,
      KW_SUPPLIER |->
          \* "supplier"
          << "s","u","p","p","l","i","e","r" >>,
      KW_PARTNERSHIP |->
          \* "partnership"
          << "p","a","r","t","n","e","r","s","h","i","p" >>,
      KW_MEDICAL |->
          \* "medical"
          << "m","e","d","i","c","a","l" >>,
      KW_DISTRIBUTOR |->
          \* "distributor"
          << "d","i","s","t","r","i","b","u","t","o","r" >>,
      KW_DEALER |->
          \* "dealer"
          << "d","e","a","l","e","r" >>,
      PROMPT_HEAD |->
          \* "\nYou are a contract classification AI.\n"
          << "\n","Y","o","u"," ","a","r","e"," ","a"," ","c","o","n","t","r","a","c","t"," ",
             "c","l","a","s","s","i","f","i","c","a","t","i","o","n"," ","A","I",".","\n" >>,
      PROMPT_CONTRACT |->
          \* "\nCONTRACT:\n"
          << "\n","C","O","N","T","R","A","C","T",":","\n" >>,
      IN_BLANK |->
          \* "   "
          << " "," "," " >>,
      IN_NDA |->
          \* "  nda  "
          << " "," ","n","d","a"," "," " >>,
      IN_RENT |->
          \* "Rent"
          << "R","e","n","t" >>,
      IN_TIE |->
          \* "rent vendor"
          << "r","e","n","t"," ","v","e","n","d","o","r" >>,
      IN_TIE_FIVE |->
          \* "salary tenant"
          << "s","a","l","a","r","y"," ","t","e","n","a","n","t" >>,
      IN_PLAIN |->
          \* "x y z"
          << "x"," ","y"," ","z" >>,
      IN_LEASE |->
          \* "rent tenant vendor"
          << "r","e","n","t"," ","t","e","n","a","n","t"," ","v","e","n","d","o","r" >>,
      IN_14 |->
          \* "  equity + rent.  "
          << " "," ","e","q","u","i","t","y"," ","+"," ","r","e","n","t","."," "," " >>,
      IN_15 |->
          \* "payroll: salary"
          << "p","a","y","r","o","l","l",":"," ","s","a","l","a","r","y" >>,
      IN_LONG |->
          \* "this agreement is kept confidential"
          << "t","h","i","s"," ","a","g","r","e","e","m","e","n","t"," ","i","s"," ","k","e",
             "p","t"," ","c","o","n","f","i","d","e","n","t","i","a","l" >>,
      OUT_LEASE |->
          \* "Lease.\nbecause of the rent"
          << "L","e","a","s","e",".","\n","b","e","c","a","u","s","e"," ","o","f"," ","t","h",
             "e"," ","r","e","n","t" >>,
      OUT_NDA |->
          \* " nda "
          << " ","n","d","a"," " >>,
      OUT_ALIEN |->
          \* "Banana"
          << "B","a","n","a","n","a" >>,
      IN_39 |->
          \* "  the tenant pays the rent for the house. "
          << " "," ","t","h","e"," ","t","e","n","a","n","t"," ","p","a","y","s"," ","t","h",
             "e"," ","r","e","n","t"," ","f","o","r"," ","t","h","e"," ","h","o","u","s","e",
             "."," " >>,
      IN_40 |->
          \* " the tenant pays the rent for that house."
          << " ","t","h","e"," ","t","e","n","a","n","t"," ","p","a","y","s"," ","t","h","e",
             " ","r","e","n","t"," ","f","o","r"," ","t","h","a","t"," ","h","o","u","s","e","." >> ]

\* String literals of agents/review_planner.py, and texts that create_review_plan is called on.
PlannerText ==
    [ AREA_TERMINATION |->
          \* "Termination Rights"
          << "T","e","r","m","i","n","a","t","i","o","n"," ","R","i","g","h","t","s" >>,
      AREA_LIABILITY |->
          \* "Liability and Indemnification"
          << "L","i","a","b","i","l","i","t","y"," ","a","n","d"," ","I","n","d","e","m","n",
             "i","f","i","c","a","t","i","o","n" >>,
      AREA_PAYMENT |->
          \* "Payment Terms"
          << "P","a","y","m","e","n","t"," ","T","e","r","m","s" >>,
      AREA_CONFIDENTIALITY |->
          \* "Confidentiality"
          << "C","o","n","f","i","d","e","n","t","i","a","l","i","t","y" >>,
      AREA_IP |->
          \* "Intellectual Property"
          << "I","n","t","e","l","l","e","c","t","u","a","l"," ","P","r","o","p","e","r","t","y" >>,
      AREA_LAW |->
          \* "Governing Law"
          << "G","o","v","e","r","n","i","n","g"," ","L","a","w" >>,
      AREA_DISPUTE |->
          \* "Dispute Resolution"
          << "D","i","s","p","u","t","e"," ","R","e","s","o","l","u","t","i","o","n" >>,
      AREA_FORCE_MAJEURE |->
          \* "Force Majeure"
          << "F","o","r","c","e"," ","M","a","j","e","u","r","e" >>,
      AREA_ASSIGNMENT |->
          \* "Assignment"
          << "A","s","s","i","g","n","m","e","n","t" >>,
      AREA_AMENDMENTS |->
          \* "Amendments"
          << "A","m","e","n","d","m","e","n","t","s" >>,
      REVIEW |->
          \* "Review "
          << "R","e","v","i","e","w"," " >>,
      AGENT_LEGAL |->
          \* "legal"
          << "l","e","g","a","l" >>,
      AGENT_FINANCE |->
          \* "finance"
          << "f","i","n","a","n","c","e" >>,
      AGENT_COMPLIANCE |->
          \* "compliance"
          << "c","o","m","p","l","i","a","n","c","e" >>,
      ESTIMATED_TIME |->
          \* "30-60 minutes"
          << "3","0","-","6","0"," ","m","i","n","u","t","e","s" >>,
      Q_TERMINATION |->
          \* "What are termination rights in this "
          << "W","h","a","t"," ","a","r","e"," ","t","e","r","m","i","n","a","t","i","o","n",
             " ","r","i","g","h","t","s"," ","i","n"," ","t","h","i","s"," " >>,
      Q_MARK |->
          \* "?"
          << "?" >>,
      Q_LIABILITY |->
          \* "What is liability exposure?"
          << "W","h","a","t"," ","i","s"," ","l","i","a","b","i","l","i","t","y"," ","e","x",
             "p","o","s","u","r","e","?" >>,
      Q_PAYMENT |->
          \* "Are payment terms safe?"
          << "A","r","e"," ","p","a","y","m","e","n","t"," ","t","e","r","m","s"," ","s","a",
             "f","e","?" >>,
      Q_LEGAL |->
          \* "Any legal risks present?"
          << "A","n","y"," ","l","e","g","a","l"," ","r","i","s","k","s"," ","p","r","e","s",
             "e","n","t","?" >>,
      Q_JURISDICTION |->
          \* "Is jurisdiction clear?"
          << "I","s"," ","j","u","r","i","s","d","i","c","t","i","o","n"," ","c","l","e","a",
             "r","?" >>,
      CONTRACT |->
          \* "Contract"
          << "C","o","n","t","r","a","c","t" >>,
      IN_CONTRACT |->
          \* "Payment monthly."
          << "P","a","y","m","e","n","t"," ","m","o","n","t","h","l","y","." >>,
      OUT_PLAN |->
          \* "Plan: {\"priority_areas\": [\"Payment Terms\"], \"review_checklist\": [], \"recommended_agents\": [\"finance\"], \"focus_questions\": [], \"estimated_time\": \"10 minutes\", \"risk_hotspots\": []}"
          << "P","l","a","n",":"," ","{","\"","p","r","i","o","r","i","t","y","_","a","r","e",
             "a","s","\"",":"," ","[","\"","P","a","y","m","e","n","t"," ","T","e","r","m","s",
             "\"","]",","," ","\"","r","e","v","i","e","w","_","c","h","e","c","k","l","i","s",
             "t","\"",":"," ","[","]",","," ","\"","r","e","c","o","m","m","e","n","d","e","d",
             "_","a","g","e","n","t","s","\"",":"," ","[","\"","f","i","n","a","n","c","e","\"",
             "]",","," ","\"","f","o","c","u","s","_","q","u","e","s","t","i","o","n","s","\"",
             ":"," ","[","]",","," ","\"","e","s","t","i","m","a","t","e","d","_","t","i","m",
             "e","\"",":"," ","\"","1","0"," ","m","i","n","u","t","e","s","\"",","," ","\"",
             "r","i","s","k","_","h","o","t","s","p","o","t","s","\"",":"," ","[","]","}" >>,
      OUT_PLAN_TIME |->
          \* "10 minutes"
          << "1","0"," ","m","i","n","u","t","e","s" >>,
      OUT_OTHER_JSON |->
          \* "{\"summary\": \"Looks fine\"}"
          << "{","\"","s","u","m","m","a","r","y","\"",":"," ","\"","L","o","o","k","s"," ","f",
             "i","n","e","\"","}" >>,
      OUT_SUMMARY |->
          \* "Looks fine"
          << "L","o","o","k","s"," ","f","i","n","e" >>,
      OUT_NO_JSON |->
          \* "I cannot plan this."
          << "I"," ","c","a","n","n","o","t"," ","p","l","a","n"," ","t","h","i","s","." >>,
      OUT_BROKEN |->
          \* "{\"priority_areas\": ["
          << "{","\"","p","r","i","o","r","i","t","y","_","a","r","e","a","s","\"",":"," ","[" >>,
      OUT_EMPTY_OBJECT |->
          \* "{}"
          << "{","}" >> ]

\* String literals of utils/risk_heuristic.py, and texts that analyze_contract is called on.
HeuristicText ==
    [ W_UNLIMITED |->
          \* "unlimited"
          << "u","n","l","i","m","i","t","e","d" >>,
      W_LIABILITY |->
          \* "liability"
          << "l","i","a","b","i","l","i","t","y" >>,
      W_INDEMNIF |->
          \* "indemnif"
          << "i","n","d","e","m","n","i","f" >>,
      W_PERPETUAL |->
          \* "perpetual"
          << "p","e","r","p","e","t","u","a","l" >>,
      W_IRREVOCABLE |->
          \* "irrevocable"
          << "i","r","r","e","v","o","c","a","b","l","e" >>,
      W_PENALTY |->
          \* "penalty"
          << "p","e","n","a","l","t","y" >>,
      W_LIQUIDATED |->
          \* "liquidated"
          << "l","i","q","u","i","d","a","t","e","d" >>,
      W_DAMAGES |->
          \* "damages"
          << "d","a","m","a","g","e","s" >>,
      W_AUTO |->
          \* "auto"
          << "a","u","t","o" >>,
      W_RENEW |->
          \* "renew"
          << "r","e","n","e","w" >>,
      W_TERMINATION |->
          \* "termination"
          << "t","e","r","m","i","n","a","t","i","o","n" >>,
      W_FEE |->
          \* "fee"
          << "f","e","e" >>,
      W_NON |->
          \* "non"
          << "n","o","n" >>,
      W_COMPETE |->
          \* "compete"
          << "c","o","m","p","e","t","e" >>,
      W_SOLICIT |->
          \* "solicit"
          << "s","o","l","i","c","i","t" >>,
      W_MUTUAL |->
          \* "mutual"
          << "m","u","t","u","a","l" >>,
      W_CAP |->
          \* "cap"
          << "c","a","p" >>,
      W_LIMIT |->
          \* "limit"
          << "l","i","m","i","t" >>,
      W_NOTICE |->
          \* "notice"
          << "n","o","t","i","c","e" >>,
      W_PERIOD |->
          \* "period"
          << "p","e","r","i","o","d" >>,
      W_GOVERNING |->
          \* "governing"
          << "g","o","v","e","r","n","i","n","g" >>,
      W_LAW |->
          \* "law"
          << "l","a","w" >>,
      W_DISPUTE |->
          \* "dispute"
          << "d","i","s","p","u","t","e" >>,
      W_RESOLUTION |->
          \* "resolution"
          << "r","e","s","o","l","u","t","i","o","n" >>,
      R_UNLIMITED_LIABILITY |->
          \* "Unlimited Liability"
          << "U","n","l","i","m","i","t","e","d"," ","L","i","a","b","i","l","i","t","y" >>,
      R_UNLIMITED_INDEMNITY |->
          \* "Unlimited Indemnity"
          << "U","n","l","i","m","i","t","e","d"," ","I","n","d","e","m","n","i","t","y" >>,
      R_PERPETUAL |->
          \* "Perpetual Obligation"
          << "P","e","r","p","e","t","u","a","l"," ","O","b","l","i","g","a","t","i","o","n" >>,
      R_IRREVOCABLE |->
          \* "Irrevocable Commitment"
          << "I","r","r","e","v","o","c","a","b","l","e"," ","C","o","m","m","i","t","m","e",
             "n","t" >>,
      R_PENALTY |->
          \* "Penalty Clause"
          << "P","e","n","a","l","t","y"," ","C","l","a","u","s","e" >>,
      R_LIQUIDATED |->
          \* "Liquidated Damages"
          << "L","i","q","u","i","d","a","t","e","d"," ","D","a","m","a","g","e","s" >>,
      R_AUTO_RENEWAL |->
          \* "Auto Renewal"
          << "A","u","t","o"," ","R","e","n","e","w","a","l" >>,
      R_TERMINATION_FEE |->
          \* "Termination Fee"
          << "T","e","r","m","i","n","a","t","i","o","n"," ","F","e","e" >>,
      R_NON_COMPETE |->
          \* "Non Compete"
          << "N","o","n"," ","C","o","m","p","e","t","e" >>,
      R_NON_SOLICIT |->
          \* "Non Solicitation"
          << "N","o","n"," ","S","o","l","i","c","i","t","a","t","i","o","n" >>,
      P_MUTUAL |->
          \* "Mutual Terms"
          << "M","u","t","u","a","l"," ","T","e","r","m","s" >>,
      P_CAP |->
          \* "Liability Cap"
          << "L","i","a","b","i","l","i","t","y"," ","C","a","p" >>,
      P_LIMITED |->
          \* "Liability Limited"
          << "L","i","a","b","i","l","i","t","y"," ","L","i","m","i","t","e","d" >>,
      P_NOTICE |->
          \* "Notice Period"
          << "N","o","t","i","c","e"," ","P","e","r","i","o","d" >>,
      P_LAW |->
          \* "Governing Law"
          << "G","o","v","e","r","n","i","n","g"," ","L","a","w" >>,
      P_DISPUTE |->
          \* "Dispute Resolution"
          << "D","i","s","p","u","t","e"," ","R","e","s","o","l","u","t","i","o","n" >>,
      LEVEL_HIGH |->
          \* "High"
          << "H","i","g","h" >>,
      LEVEL_MEDIUM |->
          \* "Medium"
          << "M","e","d","i","u","m" >>,
      LEVEL_LOW |->
          \* "Low"
          << "L","o","w" >>,
      REC_HIGH |->
          \* "High risk contract <U+2014> legal review required before signing."
          << "H","i","g","h"," ","r","i","s","k"," ","c","o","n","t","r","a","c","t"," ","<U+2014>",
             " ","l","e","g","a","l"," ","r","e","v","i","e","w"," ","r","e","q","u","i","r",
             "e","d"," ","b","e","f","o","r","e"," ","s","i","g","n","i","n","g","." >>,
      REC_CAP |->
          \* "Add liability cap to limit financial exposure."
          << "A","d","d"," ","l","i","a","b","i","l","i","t","y"," ","c","a","p"," ","t","o",
             " ","l","i","m","i","t"," ","f","i","n","a","n","c","i","a","l"," ","e","x","p",
             "o","s","u","r","e","." >>,
      REC_RENEWAL |->
          \* "Add manual renewal control."
          << "A","d","d"," ","m","a","n","u","a","l"," ","r","e","n","e","w","a","l"," ","c",
             "o","n","t","r","o","l","." >>,
      REC_PROTECTED |->
          \* "Contract includes some protective clauses."
          << "C","o","n","t","r","a","c","t"," ","i","n","c","l","u","d","e","s"," ","s","o",
             "m","e"," ","p","r","o","t","e","c","t","i","v","e"," ","c","l","a","u","s","e",
             "s","." >>,
      REC_NONE |->
          \* "No critical risks detected. Standard review recommended."
          << "N","o"," ","c","r","i","t","i","c","a","l"," ","r","i","s","k","s"," ","d","e",
             "t","e","c","t","e","d","."," ","S","t","a","n","d","a","r","d"," ","r","e","v",
             "i","e","w"," ","r","e","c","o","m","m","e","n","d","e","d","." >>,
      IN_BLANK |->
          \* "  \n "
          << " "," ","\n"," " >>,
      IN_SHORT |->
          \* "Payment is due. Sign here;\nthanks"
          << "P","a","y","m","e","n","t"," ","i","s"," ","d","u","e","."," ","S","i","g","n",
             " ","h","e","r","e",";","\n","t","h","a","n","k","s" >>,
      IN_PLAIN |->
          \* "The tenant pays the rent on the first day."
          << "T","h","e"," ","t","e","n","a","n","t"," ","p","a","y","s"," ","t","h","e"," ",
             "r","e","n","t"," ","o","n"," ","t","h","e"," ","f","i","r","s","t"," ","d","a",
             "y","." >>,
      IN_HIGH |->
          \* "The Supplier accepts UNLIMITED  liability and a perpetual, irrevocable duty"
          << "T","h","e"," ","S","u","p","p","l","i","e","r"," ","a","c","c","e","p","t","s",
             " ","U","N","L","I","M","I","T","E","D"," "," ","l","i","a","b","i","l","i","t",
             "y"," ","a","n","d"," ","a"," ","p","e","r","p","e","t","u","a","l",","," ","i",
             "r","r","e","v","o","c","a","b","l","e"," ","d","u","t","y" >>,
      IN_RENEW |->
          \* "this agreement shall auto-renew every year\nthe unlimited\tliability of the buyer stays"
          << "t","h","i","s"," ","a","g","r","e","e","m","e","n","t"," ","s","h","a","l","l",
             " ","a","u","t","o","-","r","e","n","e","w"," ","e","v","e","r","y"," ","y","e",
             "a","r","\n","t","h","e"," ","u","n","l","i","m","i","t","e","d","\t","l","i","a",
             "b","i","l","i","t","y"," ","o","f"," ","t","h","e"," ","b","u","y","e","r"," ",
             "s","t","a","y","s" >>,
      IN_PROTECTED |->
          \* "mutual liability cap, a notice period, governing law and dispute resolution"
          << "m","u","t","u","a","l"," ","l","i","a","b","i","l","i","t","y"," ","c","a","p",
             ","," ","a"," ","n","o","t","i","c","e"," ","p","e","r","i","o","d",","," ","g",
             "o","v","e","r","n","i","n","g"," ","l","a","w"," ","a","n","d"," ","d","i","s",
             "p","u","t","e"," ","r","e","s","o","l","u","t","i","o","n" >>,
      IN_MEDIUM |->
          \* "a penalty and a termination fee are due;the parties limit their joint liability"
          << "a"," ","p","e","n","a","l","t","y"," ","a","n","d"," ","a"," ","t","e","r","m",
             "i","n","a","t","i","o","n"," ","f","e","e"," ","a","r","e"," ","d","u","e",";",
             "t","h","e"," ","p","a","r","t","i","e","s"," ","l","i","m","i","t"," ","t","h",
             "e","i","r"," ","j","o","i","n","t"," ","l","i","a","b","i","l","i","t","y" >>,
      IN_MIXED |->
          \* "no. unlimited liability and penalty and liquidated damages.ok;a non-compete and nonsolicit term"
          << "n","o","."," ","u","n","l","i","m","i","t","e","d"," ","l","i","a","b","i","l",
             "i","t","y"," ","a","n","d"," ","p","e","n","a","l","t","y"," ","a","n","d"," ",
             "l","i","q","u","i","d","a","t","e","d"," ","d","a","m","a","g","e","s",".","o",
             "k",";","a"," ","n","o","n","-","c","o","m","p","e","t","e"," ","a","n","d"," ",
             "n","o","n","s","o","l","i","c","i","t"," ","t","e","r","m" >> ]

\* ------------------------------------------------------------------------
\* Text-generation gateway: call_groq, call_ollama, call_hybrid_llm
\* ------------------------------------------------------------------------

OLLAMA_RETRY == 2

\* Number of secondary attempts: utils/hybrid_llm.py calls call_ollama once,
\* utils/ollama_engine.py loops range(OLLAMA_RETRY).
LocalAttempts(impl) == IF impl = "ollama_engine" THEN OLLAMA_RETRY ELSE 1

\* Texts a provider may put in its response body.
ReplyTexts ==
    { TXT_EMPTY, ProviderText.TXT_BLANK, ProviderText.TXT_OK, ProviderText.TXT_FIVE, ProviderText.TXT_FIVE_PADDED, ProviderText.TXT_SIX,
      ProviderText.TXT_ANSWER, ProviderText.TXT_MARKER }

\* What the primary endpoint can do with a request: the transport raises
\* (connection error or timeout), the status is not 200, the JSON body has no
\* "choices", the body has "choices" of the wrong shape, or the body carries
\* a message content.
GroqRepliesOver(texts) ==
    [kind : {"exception", "status", "nochoices", "badshape"}, text : {TXT_EMPTY}]
        \cup [kind : {"ok"}, text : texts]

\* What the local endpoint can do: the transport raises, the status is not
\* 200, the body has no "response" field, the field is null, or it is a text.
OllamaRepliesOver(texts) ==
    [kind : {"exception", "status", "nofield", "null"}, text : {TXT_EMPTY}]
        \cup [kind : {"ok"}, text : texts]

\* Outcome of a Python call: a returned Optional[str], or a raised exception.
Return(v) == [raised |-> FALSE, val |-> v]

Raise == [raised |-> TRUE, val |-> None]

\* A call_groq whose transport errors escape (no try/except).
CallGroq_Unguarded(impl, reply) ==
    IF reply.kind \in {"exception", "badshape"} THEN Raise
    ELSE IF reply.kind \in {"status", "nochoices"} THEN Return(None)
    ELSE LET text == Strip(reply.text)
         IN  IF impl = "ollama_engine" /\ text = << >>
             THEN Return(None)
             ELSE Return(Some(text))

\* call_groq once the request has been posted: every exception inside the
\* try block is caught and None returned; a 200 body yields content.strip()
\* (ollama_engine.py turns the empty text into None).
CallGroq(impl, reply) ==
    IF reply.kind \in {"exception", "badshape"} THEN Return(None)
    ELSE IF reply.kind = "status" THEN Return(None)
    ELSE IF reply.kind = "nochoices" THEN Return(None)
    ELSE LET text == Strip(reply.text)
         IN  IF impl = "ollama_engine" /\ text = << >>
             THEN Return(None)
             ELSE Return(Some(text))

\* call_ollama once the request has been posted.
CallOllama(impl, reply) ==
    IF reply.kind \in {"exception", "null"} THEN Return(None)
    ELSE IF reply.kind = "status" THEN Return(None)
    ELSE LET text == IF reply.kind = "nofield" THEN << >> ELSE Strip(reply.text)
         IN  IF impl = "ollama_engine" /\ text = << >>
             THEN Return(None)
             ELSE Return(Some(text))

\* An acceptance test that forgets the length rule.
Accepted_AnyText(response) == Truthy(response)

\* `response and len(response) > 5`
Accepted(response) == Truthy(response) /\ Len(response[1]) > 5

\* The entry guard: `not prompt` (ollama_engine.py adds `not prompt.strip()`).
PromptMissing(impl, prompt) ==
    \/ Len(prompt) = 0
    \/ impl = "ollama_engine" /\ Len(Strip(prompt)) = 0

\* The role-dependent static fallback string of gateway module impl
\* ("hybrid_llm" or "ollama_engine").
StaticFallback(impl, role) ==
    IF impl = "hybrid_llm"
    THEN IF role \in {"summary", "report"}
         THEN HybridText.HYBRID_FALLBACK_FINAL ELSE HybridText.HYBRID_FALLBACK_ANALYSIS
    ELSE IF role \in {"summary", "report", "final"}
         THEN EngineText.ENGINE_FALLBACK_FINAL ELSE EngineText.ENGINE_FALLBACK_ANALYSIS

GwIdle ==
    [impl |-> "hybrid_llm", haskey |-> FALSE, prompt |-> TXT_EMPTY, role |-> "analysis",
     pc |-> "idle", tries |-> 0, groq_response |-> None, local_response |-> None,
     ret |-> None, events |-> << >>]

\* The gateway state at the entry of call_hybrid_llm(prompt, role).
GwEnter(impl, haskey, prompt, role) ==
    [impl |-> impl, haskey |-> haskey, prompt |-> prompt, role |-> role,
     pc |-> "start", tries |-> 0, groq_response |-> None, local_response |-> None,
     ret |-> None, events |-> << >>]

\* call_hybrid_llm: the prompt guard.
GwStart ==
    /\ gw.pc = "start"
    /\ gw' = IF PromptMissing(gw.impl, gw.prompt)
             THEN [gw EXCEPT !.pc = "done", !.ret = Some(HybridText.NO_PROMPT)]
             ELSE [gw EXCEPT !.pc = "groq"]
    /\ UNCHANGED << ag, rn, ex, mem, rk, th, hist, ch, mt, cc >>

\* A router that gives up after the primary, without trying the local provider.
GwAfterGroq_SkipLocal(g, response) ==
    IF Accepted(response)
    THEN [g EXCEPT !.pc = "done", !.groq_response = response, !.ret = response,
                   !.events = Append(g.events, "groq:accepted")]
    ELSE [g EXCEPT !.pc = "fallback", !.groq_response = response,
                   !.events = Append(g.events, "groq:rejected")]

\* The test on the primary response: an accepted response is returned, a
\* rejected one sends the router on to the local provider.
GwAfterGroq(g, response) ==
    IF Accepted(response)
    THEN [g EXCEPT !.pc = "done", !.groq_response = response, !.ret = response,
                   !.events = Append(g.events, "groq:accepted")]
    ELSE [g EXCEPT !.pc = "ollama", !.groq_response = response,
                   !.events = Append(g.events, "groq:rejected")]

\* call_groq up to requests.post: without an API key it returns None at once.
GwGroqCall ==
    /\ gw.pc = "groq"
    /\ gw' = IF ~gw.haskey
             THEN GwAfterGroq(gw, None)
             ELSE [gw EXCEPT !.pc = "groq_wait",
                             !.events = Append(gw.events, "groq:request")]
    /\ UNCHANGED << ag, rn, ex, mem, rk, th, hist, ch, mt, cc >>

\* The primary's answer arrives; call_hybrid_llm applies the acceptance test.
GwGroqReply ==
    /\ gw.pc = "groq_wait"
    /\ \E reply \in GroqRepliesOver(ReplyTexts) :
          LET r == CallGroq(gw.impl, reply)
          IN  gw' = IF r.raised
                    THEN [gw EXCEPT !.pc = "raised"]
                    ELSE GwAfterGroq(gw, r.val)
    /\ UNCHANGED << ag, rn, ex, mem, rk, th, hist, ch, mt, cc >>

\* call_ollama up to requests.post (`if not prompt: return None`).
GwOllamaCall ==
    /\ gw.pc = "ollama"
    /\ gw.tries < LocalAttempts(gw.impl)
    /\ gw' = IF Len(gw.prompt) = 0
             THEN [gw EXCEPT !.tries = @ + 1, !.local_response = None,
                             !.pc = IF gw.tries + 1 < LocalAttempts(gw.impl)
                                    THEN "ollama" ELSE "fallback",
                             !.events = Append(gw.events, "ollama:rejected")]
             ELSE [gw EXCEPT !.pc = "ollama_wait",
                             !.events = Append(gw.events, "ollama:request")]
    /\ UNCHANGED << ag, rn, ex, mem, rk, th, hist, ch, mt, cc >>

\* The local provider's answer arrives and is tested; a rejected attempt is
\* followed by the next attempt or, after the last one, by the fallback.
GwOllamaReply ==
    /\ gw.pc = "ollama_wait"
    /\ \E reply \in OllamaRepliesOver(ReplyTexts) :
          LET r == CallOllama(gw.impl, reply)
          IN  gw' = IF r.raised
                    THEN [gw EXCEPT !.pc = "raised"]
                    ELSE IF Accepted(r.val)
                    THEN [gw EXCEPT !.pc = "done", !.tries = @ + 1,
                                    !.local_response = r.val, !.ret = r.val,
                                    !.events = Append(gw.events, "ollama:accepted")]
                    ELSE [gw EXCEPT !.tries = @ + 1, !.local_response = r.val,
                                    !.pc = IF gw.tries + 1 < LocalAttempts(gw.impl)
                                           THEN "ollama" ELSE "fallback",
                                    !.events = Append(gw.events, "ollama:rejected")]
    /\ UNCHANGED << ag, rn, ex, mem, rk, th, hist, ch, mt, cc >>

\* Both providers rejected: the static fallback string is returned.
GwFallback ==
    /\ gw.pc = "fallback"
    /\ gw' = [gw EXCEPT !.pc = "done",
                        !.ret = Some(StaticFallback(gw.impl, gw.role)),
                        !.events = Append(gw.events, "static")]
    /\ UNCHANGED << ag, rn, ex, mem, rk, th, hist, ch, mt, cc >>

GatewayStep ==
    \/ GwStart
    \/ GwGroqCall
    \/ GwGroqReply
    \/ GwOllamaCall
    \/ GwOllamaReply
    \/ GwFallback


\* ------------------------------------------------------------------------
\* call_hybrid_llm as a function of what the two providers answer
\* ------------------------------------------------------------------------

\* The value call_hybrid_llm(prompt, role) returns when the primary answers
\* groq_reply and the successive local attempts answer local_replies.
call_hybrid_llm(impl, haskey, prompt, role, groq_reply, local_replies) ==
    IF PromptMissing(impl, prompt) THEN HybridText.NO_PROMPT
    ELSE LET response == IF haskey THEN CallGroq(impl, groq_reply).val ELSE None
         IN  IF Accepted(response) THEN response[1]
             ELSE LET local(i) == CallOllama(impl, local_replies[i]).val
                      hits == { i \in 1..LocalAttempts(impl) : Accepted(local(i)) }
                  IN  IF hits # {}
                      THEN local(CHOOSE i \in hits : \A j \in hits : i <= j)[1]
                      ELSE StaticFallback(impl, role)

\* Every value the gateway module the agents import (utils/hybrid_llm.py) can
\* return for a prompt when the providers answer with one of the texts.
GatewayReturns(prompt, role, texts) ==
    { call_hybrid_llm("hybrid_llm", haskey, prompt, role, g, << l >>) :
        haskey \in BOOLEAN, g \in GroqRepliesOver(texts), l \in OllamaRepliesOver(texts) }
\* ------------------------------------------------------------------------
\* Regular expressions (Python re): a pattern is a sequence of items, each a
\* literal string or a character class with a greedy repetition lo..hi; a
\* regex is a sequence of alternative patterns, tried in order at each
\* start position, leftmost start first.
\* ------------------------------------------------------------------------

Digits == {"0", "1", "2", "3", "4", "5", "6", "7", "8", "9"}

Letters == DOMAIN LowerOf \cup { LowerOf[c] : c \in DOMAIN LowerOf }

\* A literal; ci is TRUE under re.I.
Lit(s, ci) == [lit |-> TRUE, ci |-> ci, s |-> IF ci THEN Lower(s) ELSE s, cs |-> {}, lo |-> 1, hi |-> 1]

\* A repeated character class; the empty class stands for "." under re.S,
\* which every character matches.
Class(cs, lo, hi) == [lit |-> FALSE, ci |-> FALSE, s |-> << >>, cs |-> cs, lo |-> lo, hi |-> hi]

\* The repetition bound of * and +.
Unbounded == 100000

RECURSIVE MatchFrom(_, _, _, _)
\* The lengths matched by items k.. of pat from position i of t under greedy
\* backtracking, or << -1 >> when there is no match.
MatchFrom(t, i, pat, k) ==
    IF k > Len(pat) THEN << >>
    ELSE LET it == pat[k]
         IN  IF it.lit
             THEN IF /\ i + Len(it.s) - 1 <= Len(t)
                     /\ \A j \in 1..Len(it.s) :
                           (IF it.ci THEN LowerChar(t[i + j - 1]) ELSE t[i + j - 1]) = it.s[j]
                  THEN LET rest == MatchFrom(t, i + Len(it.s), pat, k + 1)
                       IN  IF rest = << -1 >> THEN << -1 >> ELSE << Len(it.s) >> \o rest
                  ELSE << -1 >>
             ELSE LET cap == Clamp(0, Len(t) - i + 1, it.hi)
                      run == SetMax({ n \in 0..cap :
                                 \A m \in 0..(n - 1) : it.cs = {} \/ t[i + m] \in it.cs })
                      longest(good) ==
                          IF good = {} THEN << -1 >>
                          ELSE << SetMax(good) >> \o MatchFrom(t, i + SetMax(good), pat, k + 1)
                  IN  Call(longest, { n \in it.lo..run :
                                        MatchFrom(t, i + n, pat, k + 1) # << -1 >> })

\* re.search from position `from` (1 for the whole text): the match as
\* [start, alt, lens], start = 0 for None.
Search(t, regex, from) ==
    LET search(re) ==
            LET alts(i) == { a \in 1..Len(re) : MatchFrom(t, i, re[a], 1) # << -1 >> }
                first(starts) ==
                    IF starts = {} THEN [start |-> 0, alt |-> 0, lens |-> << >>]
                    ELSE LET i == SetMin(starts)
                             a == SetMin(alts(i))
                         IN  [start |-> i, alt |-> a, lens |-> MatchFrom(t, i, re[a], 1)]
            IN  Call(first, { i \in from..(Len(t) + 1) : alts(i) # {} })
    IN  Call(search, regex)

RECURSIVE SumLens(_, _, _)
SumLens(lens, a, b) == IF a > b THEN 0 ELSE lens[a] + SumLens(lens, a + 1, b)

RECURSIVE FindAll(_, _, _)
\* re.findall for a regex without groups: the non-overlapping matches from
\* position `from`, left to right.
FindAll(t, regex, from) ==
    LET rest(m) ==
            IF m.start = 0 THEN << >>
            ELSE LET n == SumLens(m.lens, 1, Len(m.lens))
                 IN  << SubSeq(t, m.start, m.start + n - 1) >>
                         \o FindAll(t, regex, m.start + (IF n = 0 THEN 1 ELSE n))
    IN  Call(rest, Search(t, regex, from))

RECURSIVE Join(_, _)
\* sep.join(parts)
Join(sep, parts) ==
    LET join(p) ==
            IF Len(p) = 0 THEN << >>
            ELSE IF Len(p) = 1 THEN p[1]
            ELSE p[1] \o sep \o Join(sep, Tail(p))
    IN  Call(join, parts)

\* The text matched by items a..b of the matching alternative (a capture
\* group; all the items for group(0)).
GroupText(t, m, a, b) ==
    SubSeq(t, m.start + SumLens(m.lens, 1, a - 1),
              m.start + SumLens(m.lens, 1, b) - 1)

\* ------------------------------------------------------------------------
\* agents_llm/legal_agent.py
\* ------------------------------------------------------------------------

\* _extract_notice_period: r"(\\d{{1,3}})\\s*days?\\s*(written)?\\s*notice"
\* under re.I; the doubled backslashes and braces of the raw string are
\* literal characters.
ExtractNoticePeriod(contract_text) ==
    LET head == << Lit(LegalText.RE_BACKSLASH_D, TRUE), Class({"{"}, 1, 3), Lit(<< "}" >>, FALSE),
                   Lit(<< "\\" >>, FALSE), Class({"s", "S"}, 0, Unbounded),
                   Lit(LegalText.RE_DAY, TRUE), Class({"s", "S"}, 0, 1),
                   Lit(<< "\\" >>, FALSE), Class({"s", "S"}, 0, Unbounded) >>
        tail == << Lit(<< "\\" >>, FALSE), Class({"s", "S"}, 0, Unbounded), Lit(LegalText.RE_NOTICE, TRUE) >>
        m    == Search(contract_text,
                       << head \o << Lit(LegalText.RE_WRITTEN, TRUE) >> \o tail, head \o tail >>, 1)
    IN  IF m.start # 0
        THEN LegalText.NOTICE_APPEARS \o GroupText(contract_text, m, 1, 3) \o LegalText.NOTICE_DAYS
        ELSE LegalText.NOTICE_UNDEFINED

\* _extract_governing_law: r"governed by ([a-zA-Z\\s]+)", whose class holds
\* the letters, "\" and "s".
ExtractGoverningLaw(contract_text) ==
    LET text == Lower(contract_text)
        m    == Search(text, << << Lit(LegalText.KW_GOVERNED_BY, FALSE),
                                   Class(Letters \cup {"\\"}, 1, Unbounded) >> >>, 1)
    IN  IF Contains(text, LegalText.KW_INDIAN_CONTRACT_ACT) THEN LegalText.LAW_INDIAN
        ELSE IF m.start # 0
        THEN LegalText.LAW_APPEARS \o Strip(GroupText(text, m, 2, 2)) \o << "." >>
        ELSE LegalText.LAW_UNDEFINED

\* _legal_fallback
LegalFallback(contract_text) ==
    LET text == Lower(contract_text)
        has_termination == Contains(text, LegalText.KW_TERMINATION)
        has_liability   == Contains(text, LegalText.KW_LIABILITY)
        has_indemnity   == Contains(text, LegalText.KW_INDEMN)
        risk == IF ~has_indemnity THEN RiskLevels.LEVEL_HIGH
                ELSE IF ~has_liability \/ ~has_termination THEN RiskLevels.LEVEL_MEDIUM
                ELSE RiskLevels.LEVEL_LOW
    IN  LegalText.LEGAL_FB_LEVEL \o risk \o LegalText.LEGAL_FB_RISKS \o ExtractNoticePeriod(contract_text)
            \o LegalText.FB_BULLET \o ExtractGoverningLaw(contract_text) \o LegalText.LEGAL_FB_TAIL

\* ------------------------------------------------------------------------
\* agents_llm/finance_agent.py
\* ------------------------------------------------------------------------

\* _extract_currency: r"(?:<rupee>|\$|USD|INR)\s?[\d,]+"; the rupee sign, one
\* character of a Python string, is the string "<U+20B9>".
ExtractCurrency(text) ==
    LET amount  == << Class(Whitespace, 0, 1), Class(Digits \cup {","}, 1, Unbounded) >>
        regex   == << << Lit(<< "<U+20B9>" >>, FALSE) >> \o amount,
                      << Lit(<< "$" >>, FALSE) >> \o amount,
                      << Lit(FinanceText.RE_USD, FALSE) >> \o amount, << Lit(FinanceText.RE_INR, FALSE) >> \o amount >>
        matches == FindAll(text, regex, 1)
    IN  IF Len(matches) > 0
        THEN FinanceText.FIN_AMOUNTS \o Join(<< ",", " " >>, Take(matches, 3))
        ELSE FinanceText.FIN_NO_AMOUNTS

\* _extract_due: r"(?:within|net)\s*(\d{1,3})\s*days"
ExtractDue(text) ==
    LET lower == Lower(text)
        days  == << Class(Whitespace, 0, Unbounded), Class(Digits, 1, 3),
                    Class(Whitespace, 0, Unbounded), Lit(FinanceText.RE_DAYS, FALSE) >>
        m     == Search(lower, << << Lit(FinanceText.RE_WITHIN, FALSE) >> \o days,
                                  << Lit(FinanceText.RE_NET, FALSE) >> \o days >>, 1)
    IN  IF m.start # 0
        THEN FinanceText.FIN_DUE \o GroupText(lower, m, 3, 3) \o LegalText.NOTICE_DAYS
        ELSE FinanceText.FIN_NO_DUE

\* _finance_fallback; the em dash is the string "<U+2014>".
FinanceFallback(text) ==
    LET lower == Lower(text)
        payment == IF Contains(lower, FinanceText.KW_PAYMENT) \/ Contains(lower, FinanceText.KW_INVOICE)
                   THEN FinanceText.FIN_PAYMENT_YES ELSE FinanceText.FIN_PAYMENT_NO
        penalties == IF Contains(lower, FinanceText.KW_PENALTY) \/ Contains(lower, FinanceText.KW_LATE_FEE)
                     THEN FinanceText.FIN_PENALTY_YES ELSE FinanceText.FIN_PENALTY_NO
        liability == IF Contains(lower, LegalText.KW_LIABILITY)
                     THEN FinanceText.FIN_LIABILITY_YES ELSE FinanceText.FIN_LIABILITY_NO
    IN  FinanceText.FIN_FB_HEAD \o payment \o LegalText.FB_BULLET \o ExtractDue(text)
            \o LegalText.FB_BULLET \o ExtractCurrency(text)
            \o FinanceText.FIN_FB_PENALTIES \o penalties
            \o FinanceText.FIN_FB_EXPOSURE \o << "<U+2014>", " " >> \o liability \o FinanceText.FIN_FB_TAIL

\* ------------------------------------------------------------------------
\* agents_llm/compliance_agent.py
\* ------------------------------------------------------------------------

\* ".{{0,40}}(\d{{1,3}})" in a raw string: one character, up to 40 "{", a
\* "}", then one digit, one to three "{" and a "}".
BracedNumber ==
    << Class({}, 1, 1), Class({"{"}, 0, 40), Lit(<< "}" >>, FALSE),
       Class(Digits, 1, 1), Class({"{"}, 1, 3), Lit(<< "}" >>, FALSE),
       Class(Whitespace, 1, Unbounded) >>

\* _extract_breach_window:
\* r"(?:notify|notification).{{0,40}}(\d{{1,3}})\s+days?" under re.I | re.S
ExtractBreachWindow(contract_text) ==
    LET tail == BracedNumber \o << Lit(LegalText.RE_DAY, TRUE), Class({"s", "S"}, 0, 1) >>
        m    == Search(contract_text, << << Lit(ComplianceText.RE_NOTIFY, TRUE) >> \o tail,
                                         << Lit(ComplianceText.RE_NOTIFICATION, TRUE) >> \o tail >>, 1)
    IN  IF m.start # 0
        THEN ComplianceText.CMP_BREACH \o GroupText(contract_text, m, 5, 7) \o LegalText.NOTICE_DAYS
        ELSE ComplianceText.CMP_NO_BREACH

\* _extract_retention_period:
\* r"(?:retain|retention).{{0,40}}(\d{{1,3}})\s+(?:years?|months?)"
ExtractRetentionPeriod(contract_text) ==
    LET years  == BracedNumber \o << Lit(ComplianceText.RE_YEAR, TRUE), Class({"s", "S"}, 0, 1) >>
        months == BracedNumber \o << Lit(ComplianceText.RE_MONTH, TRUE), Class({"s", "S"}, 0, 1) >>
        m      == Search(contract_text,
                         << << Lit(ComplianceText.RE_RETAIN, TRUE) >> \o years, << Lit(ComplianceText.RE_RETAIN, TRUE) >> \o months,
                            << Lit(ComplianceText.RE_RETENTION, TRUE) >> \o years,
                            << Lit(ComplianceText.RE_RETENTION, TRUE) >> \o months >>, 1)
    IN  IF m.start # 0
        THEN ComplianceText.CMP_RETENTION \o GroupText(contract_text, m, 5, 7) \o << "." >>
        ELSE ComplianceText.CMP_NO_RETENTION

\* _compliance_fallback
ComplianceFallback(contract_text) ==
    LET text == Lower(contract_text)
        privacy == IF \E k \in {ComplianceText.KW_DATA, ComplianceText.KW_PRIVACY, ComplianceText.KW_GDPR, ComplianceText.KW_PERSONAL_INFORMATION} :
                         Contains(text, k)
                   THEN ComplianceText.CMP_PRIVACY_YES ELSE ComplianceText.CMP_PRIVACY_NO
        regulatory == IF \E k \in {ComplianceText.KW_LAW, ComplianceText.KW_COMPLIANCE, ComplianceText.KW_GST, LegalText.KW_INDIAN_CONTRACT_ACT} :
                            Contains(text, k)
                      THEN ComplianceText.CMP_REGULATORY_YES ELSE ComplianceText.CMP_REGULATORY_NO
        audit == IF Contains(text, ComplianceText.KW_AUDIT) THEN ComplianceText.CMP_AUDIT_YES ELSE ComplianceText.CMP_AUDIT_NO
    IN  ComplianceText.CMP_FB_HEAD \o privacy \o LegalText.FB_BULLET \o ExtractBreachWindow(contract_text)
            \o ComplianceText.CMP_FB_REGULATORY \o regulatory
            \o ComplianceText.CMP_FB_MISSING \o audit
            \o ComplianceText.CMP_FB_SECURITY \o ExtractRetentionPeriod(contract_text) \o ComplianceText.CMP_FB_TAIL

\* ------------------------------------------------------------------------
\* agents_llm/operations_agent.py
\* ------------------------------------------------------------------------

\* _operations_fallback
OperationsFallback(clause) ==
    LET text == Lower(clause)
    IN  IF \E k \in {OperationsText.KW_DELAY, OperationsText.KW_TIMELINE, OperationsText.KW_DELIVERY} : Contains(text, k)
        THEN OperationsText.OPS_FB_TIMELINE
        ELSE IF \E k \in {OperationsText.KW_RESPONSIBILITY, OperationsText.KW_PARTY_SHALL} : Contains(text, k)
        THEN OperationsText.OPS_FB_RESPONSIBILITY
        ELSE IF \E k \in {OperationsText.KW_APPROVAL, OperationsText.KW_CONSENT} : Contains(text, k)
        THEN OperationsText.OPS_FB_APPROVAL
        ELSE IF \E k \in {OperationsText.KW_DEPENDENCY, OperationsText.KW_THIRD_PARTY} : Contains(text, k)
        THEN OperationsText.OPS_FB_THIRD_PARTY
        ELSE OperationsText.OPS_FB_DEFAULT

\* s.split("\n")[0]
FirstLine(s) ==
    LET breaks == { i \in 1..Len(s) : s[i] = "\n" }
    IN  IF breaks = {} THEN s ELSE SubSeq(s, 1, SetMin(breaks) - 1)

\* ------------------------------------------------------------------------
\* utils/risk_score.py
\* ------------------------------------------------------------------------

\* A finditer that finds a keyword only where a word starts.
MatchPositions_WordStart(text, keyword, from) ==
    { i \in from..(Len(text) - Len(keyword) + 1) :
         OccursAt(text, keyword, i) /\ (i = 1 \/ text[i - 1] \notin Letters) }

RECURSIVE MatchPositions(_, _, _)
\* re.finditer(re.escape(keyword), text): the starts of the non-overlapping
\* occurrences of keyword from position `from`, left to right.
MatchPositions(text, keyword, from) ==
    LET rest(starts) ==
            IF starts = {} THEN {}
            ELSE {SetMin(starts)}
                     \cup MatchPositions(text, keyword, SetMin(starts) + Len(keyword))
    IN  Call(rest, { i \in from..(Len(text) - Len(keyword) + 1) : OccursAt(text, keyword, i) })

\* A _contains_term that does not look at what precedes the keyword.
ContainsTerm_NoNegation(text_lower, keyword) ==
    Len(text_lower) > 0 /\ MatchPositions(text_lower, keyword, 1) # {}

\* _contains_term: some occurrence of keyword has no negation term in
\* text_lower[max(0, match.start() - 25):match.start()].
ContainsTerm(text_lower, keyword) ==
    /\ Len(text_lower) > 0
    /\ \E p \in MatchPositions(text_lower, keyword, 1) :
          LET prefix == SubSeq(text_lower, IF p - 25 < 1 THEN 1 ELSE p - 25, p - 1)
          IN  ~ \E x \in { RiskText.NEG_NO, RiskText.NEG_NOT, RiskText.NEG_WITHOUT, RiskText.NEG_ABSENCE_OF } :
                    Contains(prefix, x)

\* A scorer that adds the increment of a keyword once for each occurrence
\* of it that is not negated.
calculate_risk_score_PerOccurrence(contract_text) ==
    IF Len(contract_text) = 0 THEN [level |-> RiskLevels.LEVEL_LOW, score |-> 25]
    ELSE LET high_risk_keywords ==
                 << RiskText.HR_UNLIMITED_LIABILITY, RiskText.HR_UNLIMITED_INDEMN, RiskText.HR_PERPETUAL, RiskText.HR_IRREVOCABLE,
                   RiskText.HR_LIQUIDATED_DAMAGES, RiskText.HR_SOLE_DISCRETION, RiskText.HR_WAIVE >>
             medium_risk_keywords ==
                 << RiskText.MR_TERMINATION, RiskText.MR_BREACH, RiskText.MR_PENALTY, RiskText.MR_INTEREST, RiskText.MR_INDEMNITY,
                   RiskText.MR_CONFIDENTIAL, RiskText.MR_NON_COMPETE, RiskText.MR_NON_SOLICITATION, RiskText.MR_ASSIGNMENT,
                   RiskText.MR_AUTO_RENEW >>
             protective_keywords ==
                 << RiskText.PR_LIABILITY_CAP, RiskText.PR_LIMITED_LIABILITY, RiskText.PR_GOVERNING_LAW, RiskText.PR_ARBITRATION,
                   RiskText.PR_NOTICE_PERIOD, RiskText.PR_DATA_PROTECTION, RiskText.PR_ENCRYPTED, RiskText.PR_BACKUP >>
             raw(text_lower) ==
                 LET hits(keywords) ==
                         Cardinality({ kp \in (1..Len(keywords)) \X (1..Len(text_lower)) :
                             /\ kp[2] \in MatchPositions(text_lower, keywords[kp[1]], 1)
                             /\ ContainsTerm(SubSeq(text_lower, 1,
                                                    kp[2] + Len(keywords[kp[1]]) - 1),
                                             keywords[kp[1]]) })
                 IN  35 + 15 * hits(high_risk_keywords) + 6 * hits(medium_risk_keywords)
                         - 5 * hits(protective_keywords)
             result(score) ==
                 [level |-> IF score >= 70 THEN RiskLevels.LEVEL_HIGH
                            ELSE IF score >= 40 THEN RiskLevels.LEVEL_MEDIUM ELSE RiskLevels.LEVEL_LOW,
                  score |-> score]
         IN  Call(result, Clamp(5, Call(raw, Lower(contract_text)), 100))

\* calculate_risk_score: (risk_level, risk_percentage)
calculate_risk_score(contract_text) ==
    IF Len(contract_text) = 0 THEN [level |-> RiskLevels.LEVEL_LOW, score |-> 25]
    ELSE LET high_risk_keywords ==
                 << RiskText.HR_UNLIMITED_LIABILITY, RiskText.HR_UNLIMITED_INDEMN, RiskText.HR_PERPETUAL, RiskText.HR_IRREVOCABLE,
                   RiskText.HR_LIQUIDATED_DAMAGES, RiskText.HR_SOLE_DISCRETION, RiskText.HR_WAIVE >>
             medium_risk_keywords ==
                 << RiskText.MR_TERMINATION, RiskText.MR_BREACH, RiskText.MR_PENALTY, RiskText.MR_INTEREST, RiskText.MR_INDEMNITY,
                   RiskText.MR_CONFIDENTIAL, RiskText.MR_NON_COMPETE, RiskText.MR_NON_SOLICITATION, RiskText.MR_ASSIGNMENT,
                   RiskText.MR_AUTO_RENEW >>
             protective_keywords ==
                 << RiskText.PR_LIABILITY_CAP, RiskText.PR_LIMITED_LIABILITY, RiskText.PR_GOVERNING_LAW, RiskText.PR_ARBITRATION,
                   RiskText.PR_NOTICE_PERIOD, RiskText.PR_DATA_PROTECTION, RiskText.PR_ENCRYPTED, RiskText.PR_BACKUP >>
             raw(text_lower) ==
                 LET hits(keywords) == Cardinality({ k \in 1..Len(keywords) :
                                                       ContainsTerm(text_lower, keywords[k]) })
                 IN  35 + 15 * hits(high_risk_keywords) + 6 * hits(medium_risk_keywords)
                         - 5 * hits(protective_keywords)
             result(score) ==
                 [level |-> IF score >= 70 THEN RiskLevels.LEVEL_HIGH
                            ELSE IF score >= 40 THEN RiskLevels.LEVEL_MEDIUM ELSE RiskLevels.LEVEL_LOW,
                  score |-> score]
         IN  Call(result, Clamp(5, Call(raw, Lower(contract_text)), 100))

\* ------------------------------------------------------------------------
\* utils/risk_formatter.py
\* ------------------------------------------------------------------------

\* create_executive_summary; agent_outputs is the sequence of (name, value)
\* pairs of the dict in insertion order.
create_executive_summary(contract_type, risk_level, agent_outputs) ==
    LET contract == IF Len(contract_type) > 0 THEN contract_type ELSE ReportText.TYPE_CONTRACT
        risk     == IF Len(risk_level) > 0 THEN risk_level ELSE RiskLevels.LEVEL_MEDIUM
        sources(active_agents) ==
            IF Len(active_agents) > 0
            THEN Join(<< ",", " " >>, [i \in 1..Len(active_agents) |-> active_agents[i][1]])
            ELSE FormatterText.SUMMARY_AI
    IN  FormatterText.SUMMARY_THIS \o contract \o FormatterText.SUMMARY_ASSESSED \o risk \o FormatterText.SUMMARY_BASED
            \o Call(sources, SelectSeq(agent_outputs,
                                       LAMBDA p : Len(p[2]) > 0 /\ Len(Strip(p[2])) > 0))
            \o FormatterText.SUMMARY_REST

\* ------------------------------------------------------------------------
\* report/final_report.py
\* ------------------------------------------------------------------------

RECURSIVE IntToStr(_)
\* str(n) for n >= 0
IntToStr(n) ==
    LET digit == << "0", "1", "2", "3", "4", "5", "6", "7", "8", "9" >>[(n % 10) + 1]
    IN  IF n < 10 THEN << digit >> ELSE IntToStr(n \div 10) \o << digit >>

RECURSIVE SplitLines(_)
\* str.splitlines() for the line boundaries "\n", "\r" and "\r\n"
SplitLines(s) ==
    LET split(t) ==
            LET breaks == { i \in 1..Len(t) : t[i] \in {"\n", "\r"} }
                cut(b) ==
                    << SubSeq(t, 1, b - 1) >>
                        \o SplitLines(SubSeq(t, IF t[b] = "\r" /\ b < Len(t) /\ t[b + 1] = "\n"
                                                THEN b + 2 ELSE b + 1, Len(t)))
            IN  IF Len(t) = 0 THEN << >>
                ELSE IF breaks = {} THEN << t >>
                ELSE Call(cut, SetMin(breaks))
    IN  Call(split, s)

\* _clean: each line is re.sub(r"^[\-\*\<bullet>\s]+", "", l).strip(); the
\* bullet, one character of a Python string, is the string "<U+2022>".
Clean(text) ==
    IF Len(text) = 0 THEN ReportText.CLEAN_NO_ISSUES
    ELSE LET lead(l) == { i \in 1..Len(l) :
                            l[i] \notin ({"-", "*", "<U+2022>"} \cup Whitespace) }
             clean(l) == IF lead(l) = {} THEN << >>
                         ELSE Strip(SubSeq(l, SetMin(lead(l)), Len(l)))
             lines(raw) == SelectSeq([i \in 1..Len(raw) |-> clean(raw[i])],
                                     LAMBDA c : Len(c) > 0)
         IN  Join(<< "\n" >>, Take(Call(lines, SplitLines(text)), 6))

\* A _fallback_report that scores the legal block alone.
FallbackReport_LegalOnly(contract_type, legal, finance, compliance) ==
    LET report(risk) ==
            LET summary == create_executive_summary(contract_type, risk.level,
                               << << ReportText.NAME_LEGAL, legal >>, << ReportText.NAME_FINANCE, finance >>,
                                  << ReportText.NAME_COMPLIANCE, compliance >> >>)
            IN  Strip(ReportText.REPORT_FB_HEAD \o contract_type
                        \o ReportText.REPORT_FB_RISK \o risk.level \o << " ", "(" >>
                        \o IntToStr(risk.score)
                        \o ReportText.REPORT_FB_SUMMARY \o summary
                        \o ReportText.REPORT_FB_LEGAL \o Clean(legal)
                        \o ReportText.REPORT_FB_FINANCE \o Clean(finance)
                        \o ReportText.REPORT_FB_COMPLIANCE \o Clean(compliance)
                        \o ReportText.REPORT_FB_TAIL)
    IN  Call(report, calculate_risk_score(legal))

\* _fallback_report
FallbackReport(contract_type, legal, finance, compliance) ==
    LET combined == legal \o << "\n" >> \o finance \o << "\n" >> \o compliance
        report(risk) ==
            LET summary == create_executive_summary(contract_type, risk.level,
                               << << ReportText.NAME_LEGAL, legal >>, << ReportText.NAME_FINANCE, finance >>,
                                  << ReportText.NAME_COMPLIANCE, compliance >> >>)
            IN  Strip(ReportText.REPORT_FB_HEAD \o contract_type
                        \o ReportText.REPORT_FB_RISK \o risk.level \o << " ", "(" >>
                        \o IntToStr(risk.score)
                        \o ReportText.REPORT_FB_SUMMARY \o summary
                        \o ReportText.REPORT_FB_LEGAL \o Clean(legal)
                        \o ReportText.REPORT_FB_FINANCE \o Clean(finance)
                        \o ReportText.REPORT_FB_COMPLIANCE \o Clean(compliance)
                        \o ReportText.REPORT_FB_TAIL)
    IN  Call(report, calculate_risk_score(combined))

\* x or default, for an Optional[str] x
OrDefault(x, default) == IF Truthy(x) THEN x[1] ELSE default

\* generate_final_report after call_hybrid_llm(prompt, role="summary"):
\* a falsy response or one containing "unavailable" gives the template.
ReportResponse(contract_type, legal, finance, compliance, outcome) ==
    IF outcome.raised THEN FallbackReport(contract_type, legal, finance, compliance)
    ELSE IF ~Truthy(outcome.val) \/ Contains(Lower(outcome.val[1]), ReportText.FAILURE_MARKER)
    THEN FallbackReport(contract_type, legal, finance, compliance)
    ELSE Strip(outcome.val[1])

\* ------------------------------------------------------------------------
\* agents_llm/summary_agent.py
\* ------------------------------------------------------------------------

\* The prompt of summary_agent (instruction block abridged).
SummaryPrompt(full_context, agent_results) ==
    SummaryText.SUMMARY_PROMPT_HEAD \o SummaryText.PROMPT_LEGAL \o agent_results.Legal
        \o SummaryText.PROMPT_FINANCE \o agent_results.Finance
        \o SummaryText.PROMPT_COMPLIANCE \o agent_results.Compliance
        \o SummaryText.PROMPT_OPERATIONS \o agent_results.Operations
        \o LegalText.PROMPT_CONTRACT \o Take(full_context, 5000) \o << "\n" >>

\* _summary_fallback
SummaryFallback(agent_results, contract_type) ==
    SummaryText.SUMMARY_FB_HEAD \o contract_type
        \o SummaryText.SUMMARY_FB_LEGAL \o agent_results.Legal
        \o SummaryText.SUMMARY_FB_FINANCIAL \o agent_results.Finance
        \o SummaryText.SUMMARY_FB_COMPLIANCE \o agent_results.Compliance
        \o SummaryText.SUMMARY_FB_TAIL

\* summary_agent after call_hybrid_llm(prompt, role="summary"): only a falsy
\* response gives the fallback report.
SummaryResponse(agent_results, contract_type, outcome) ==
    IF outcome.raised THEN SummaryFallback(agent_results, contract_type)
    ELSE IF ~Truthy(outcome.val) THEN SummaryFallback(agent_results, contract_type)
    ELSE Strip(outcome.val[1])

\* ------------------------------------------------------------------------
\* The prompt agents as callers of the gateway: legal_agent, finance_agent,
\* compliance_agent, operations_agent, summary_agent, generate_final_report
\* ------------------------------------------------------------------------

\* The local heuristic fallback of an analysis agent.
HeuristicFallback(name, text) ==
    CASE name = "legal" -> LegalFallback(text)
      [] name = "finance" -> FinanceFallback(text)
      [] name = "compliance" -> ComplianceFallback(text)
      [] name = "operations" -> OperationsFallback(text)

\* An analysis agent up to the gateway call: an early reply (missing text,
\* or stripped text shorter than 20 characters for legal_agent and 15 for the
\* others), or the stripped text and the prompt.  The instruction block of
\* the prompt is abridged to its first line; the excerpt text[:900]
\* (clause[:700] for operations_agent) is kept.
AgentEntry(name, contract_text) ==
    LET lit == CASE name = "legal" ->
                      << LegalText.LEGAL_NO_TEXT, LegalText.LEGAL_TOO_SHORT, LegalText.LEGAL_PROMPT_HEAD \o LegalText.PROMPT_CONTRACT >>
                 [] name = "finance" ->
                      << FinanceText.FINANCE_NO_TEXT, FinanceText.FINANCE_TOO_SHORT,
                         FinanceText.FINANCE_PROMPT_HEAD \o LegalText.PROMPT_CONTRACT >>
                 [] name = "compliance" ->
                      << ComplianceText.COMPLIANCE_NO_TEXT, ComplianceText.COMPLIANCE_TOO_SHORT,
                         ComplianceText.COMPLIANCE_PROMPT_HEAD \o LegalText.PROMPT_CONTRACT >>
                 [] name = "operations" ->
                      << OperationsText.OPS_NO_TEXT, OperationsText.OPS_TOO_SHORT, OperationsText.OPS_PROMPT_HEAD \o OperationsText.PROMPT_CLAUSE >>
    IN  IF ~Truthy(contract_text)
        THEN [ret |-> Some(lit[1]), text |-> << >>, prompt |-> << >>]
        ELSE LET text == Strip(contract_text[1])
             IN  IF Len(text) < (IF name = "legal" THEN 20 ELSE 15)
                 THEN [ret |-> Some(lit[2]), text |-> text, prompt |-> << >>]
                 ELSE [ret |-> None, text |-> text,
                       prompt |-> lit[3] \o Take(text, IF name = "operations" THEN 700 ELSE 900)
                                      \o << "\n" >>]

\* An analysis agent after the gateway call: `if not response` gives the
\* heuristic fallback, as does an exception; any other response is returned
\* stripped (operations_agent keeps its first line, at most 200 characters).
AgentResponse(name, text, outcome) ==
    IF outcome.raised THEN HeuristicFallback(name, text)
    ELSE IF ~Truthy(outcome.val) THEN HeuristicFallback(name, text)
    ELSE IF name = "operations"
         THEN Take(FirstLine(Strip(outcome.val[1])), 200)
         ELSE Strip(outcome.val[1])

AgIdle ==
    [name |-> "legal", contract_text |-> None, contract_type |-> None,
     results |-> [Legal |-> << >>, Finance |-> << >>, Compliance |-> << >>,
                  Operations |-> << >>],
     skip |-> FALSE, pc |-> "idle", text |-> << >>, out |-> None]

\* An agent about to run on its arguments: the contract text for an analysis
\* agent; the agent results and contract type for summary_agent and
\* generate_final_report, with skip for CLAUSEAI_SKIP_SUMMARY_LLM=1.
AgEnter(name, contract_text, contract_type, results, skip) ==
    [AgIdle EXCEPT !.name = name, !.contract_text = contract_text,
                   !.contract_type = contract_type, !.results = results,
                   !.skip = skip, !.pc = "start"]

\* An agent runs up to its call of call_hybrid_llm, or returns early.
AgentCall ==
    /\ ag.pc = "start"
    /\ LET r == ag.results
           entry ==
               CASE ag.name = "summary" ->
                      [ret |-> None,
                       text |-> OrDefault(ag.contract_text, SummaryText.SUMMARY_NO_CONTRACT),
                       prompt |-> SummaryPrompt(
                                      OrDefault(ag.contract_text, SummaryText.SUMMARY_NO_CONTRACT), r)]
                 [] ag.name = "report" ->
                      LET contract_type == OrDefault(ag.contract_type, ReportText.TYPE_CONTRACT)
                      IN  [ret |-> IF ag.skip
                                   THEN Some(FallbackReport(contract_type, r.Legal,
                                                            r.Finance, r.Compliance))
                                   ELSE None,
                           text |-> << >>,
                           prompt |-> ReportText.REPORT_PROMPT_HEAD \o ReportText.PROMPT_TYPE \o contract_type
                                          \o << "\n" >> \o SummaryText.PROMPT_LEGAL \o r.Legal
                                          \o SummaryText.PROMPT_FINANCE \o r.Finance
                                          \o SummaryText.PROMPT_COMPLIANCE \o r.Compliance
                                          \o SummaryText.PROMPT_OPERATIONS \o r.Operations
                                          \o ReportText.PROMPT_USER_FOCUS \o ReportText.FOCUS_GENERAL
                                          \o << "\n" >>]
                 [] OTHER -> AgentEntry(ag.name, ag.contract_text)
       IN  IF entry.ret # None
           THEN /\ ag' = [ag EXCEPT !.pc = "done", !.out = entry.ret, !.text = entry.text]
                /\ UNCHANGED gw
           ELSE /\ ag' = [ag EXCEPT !.pc = "llm", !.text = entry.text]
                /\ gw' = GwEnter("hybrid_llm", gw.haskey, entry.prompt,
                                 IF ag.name \in {"summary", "report"}
                                 THEN "summary" ELSE "analysis")
    /\ UNCHANGED << rn, ex, mem, rk, th, hist, ch, mt, cc >>

\* The gateway has returned to the agent.
AgentReturn ==
    /\ ag.pc = "llm"
    /\ gw.pc \in {"done", "raised"}
    /\ LET outcome == IF gw.pc = "raised" THEN Raise ELSE Return(gw.ret)
           r == ag.results
       IN  ag' = [ag EXCEPT
                    !.pc = "done",
                    !.out = Some(
                        CASE ag.name = "summary" ->
                               SummaryResponse(r, OrDefault(ag.contract_type, SummaryText.TYPE_GENERAL),
                                               outcome)
                          [] ag.name = "report" ->
                               ReportResponse(OrDefault(ag.contract_type, ReportText.TYPE_CONTRACT),
                                              r.Legal, r.Finance, r.Compliance, outcome)
                          [] OTHER -> AgentResponse(ag.name, ag.text, outcome))]
    /\ UNCHANGED << gw, rn, ex, mem, rk, th, hist, ch, mt, cc >>

\* The gateway runs only while a caller is inside call_hybrid_llm.
AgentGatewayStep == ag.pc = "llm" /\ GatewayStep


\* ------------------------------------------------------------------------
\* agents/contract_classifier.py
\* ------------------------------------------------------------------------

\* A parsed JSON value of type t ("int", "str", "list", "object", "null");
\* type "error" stands for the exception json.loads raises.
J(t, v) == [t |-> t, v |-> v]

JNull == J("null", 0)

\* json.loads on the JSON documents the providers answer with; every other
\* text of the model is not a JSON document and makes json.loads raise.
JsonLoads(s) ==
    CASE s = ClassifierText.JSON_CATEGORY_LEASE ->
            J("object", "primary_category" :> J("str", << " " >> \o ClassifierText.CAT_LEASE \o << " " >>))
      [] s = ClassifierText.JSON_CATEGORY_ALIEN ->
            J("object", "primary_category" :> J("str", ClassifierText.CAT_ALIEN))
      [] s = ClauseText.JSON_CLAUSES_ONE ->
            J("list", << J("object", "type" :> J("str", ClauseText.CLAUSE_TERMINATION)
                             @@ "text" :> J("str", << " " >> \o ClauseText.CLAUSE_TEXT_NOTICE \o << " " >>)) >>)
      [] s = ClauseText.JSON_CLAUSES_TWO ->
            J("list", << J("object", "type" :> J("str", ClauseText.CLAUSE_LIABILITY)
                             @@ "text" :> J("str", ClauseText.CLAUSE_TEXT_UNLIMITED)),
                     J("object", "text" :> J("str", TXT_EMPTY)),
                     J("str", ClauseText.TXT_NA) >>)
      [] s = ClauseText.JSON_RISK_HIGH ->
            J("object", "risk_score" :> J("int", 90) @@ "risk_level" :> J("str", RiskLevels.LEVEL_HIGH)
                    @@ "red_flags" :> J("list", << J("str", ClauseText.FLAG_UNLIMITED) >>))
      [] s = ClauseText.JSON_RISK_OVER ->
            J("object", "risk_score" :> J("int", 250))
      [] s = ClauseText.JSON_RISK_NEGATIVE ->
            J("object", "risk_score" :> J("int", 0 - 5) @@ "issues" :> J("str", ClauseText.FLAG_VAGUE))
      [] s = ClauseText.JSON_RISK_WORD ->
            J("object", "risk_score" :> J("str", Lower(RiskLevels.LEVEL_HIGH)))
      [] s = ClauseText.JSON_RISK_MISSING ->
            J("object", "risk_level" :> J("str", RiskLevels.LEVEL_LOW))
      [] s = ClauseText.JSON_RISK_NULL ->
            J("object", "risk_score" :> JNull)
      [] s = SubSeq(ClauseText.JSON_RISK_TEXT, 7, Len(ClauseText.JSON_RISK_TEXT)) ->
            J("object", "risk_score" :> J("str", << " ", "8", "5", " " >>))
      [] s = ClauseText.JSON_RISK_EMPTY ->
            J("object", << >>)
      [] s = SubSeq(PlannerText.OUT_PLAN, 7, Len(PlannerText.OUT_PLAN)) ->
            J("object", "priority_areas" :> J("list", << J("str", PlannerText.AREA_PAYMENT) >>)
                    @@ "review_checklist" :> J("list", << >>)
                    @@ "recommended_agents" :> J("list", << J("str", PlannerText.AGENT_FINANCE) >>)
                    @@ "focus_questions" :> J("list", << >>)
                    @@ "estimated_time" :> J("str", PlannerText.OUT_PLAN_TIME)
                    @@ "risk_hotspots" :> J("list", << >>))
      [] s = PlannerText.OUT_OTHER_JSON ->
            J("object", "summary" :> J("str", PlannerText.OUT_SUMMARY))
      [] OTHER -> J("error", 0)

\* dict.get(key, default) on a parsed object.
Get(d, key, default) == IF key \in DOMAIN d THEN d[key] ELSE default

\* str(value) of a parsed value (numbers and strings).
Str(value) == IF value.t = "int" THEN IntToStr(value.v) ELSE value.v

\* The text between the first `open` and the last `close`, both included:
\* text[text.find("{"):text.rfind("}")+1], and group(0) of the greedy DOTALL
\* searches r'\{.*\}' and r'\[.*\]'.  None when either is missing or the last
\* close precedes the first open.
Span(text, open, close) ==
    LET opens  == { i \in 1..Len(text) : text[i] = open }
        closes == { i \in 1..Len(text) : text[i] = close }
    IN  IF opens = {} \/ closes = {} THEN None
        ELSE LET start == CHOOSE i \in opens : \A j \in opens : i <= j
                 end   == CHOOSE i \in closes : \A j \in closes : i >= j
             IN  IF end < start THEN None ELSE Some(SubSeq(text, start, end))

\* ContractClassifier._extract_json, reduced to the primary category: None
\* when the text holds no JSON object, else the category, "Other" when it is
\* not an allowed one.
ExtractJson(text) ==
    LET span == Span(text, "{", "}")
        PRIMARY_CATEGORIES ==
            { ClassifierText.CAT_EMPLOYMENT, ClassifierText.CAT_NDA, ClassifierText.CAT_SERVICE_AGREEMENT, ClassifierText.CAT_VENDOR, ClassifierText.CAT_LEASE,
              ClassifierText.CAT_PARTNERSHIP, ClassifierText.CAT_HEALTHCARE, ClassifierText.CAT_INVESTOR, ClassifierText.CAT_DISTRIBUTOR, ClassifierText.CAT_DEALER,
              ClassifierText.CAT_LICENSE, ClassifierText.CAT_SAAS, ClassifierText.CAT_CONSTRUCTION, ClassifierText.CAT_INSURANCE, ClassifierText.CAT_OTHER }
    IN  IF span = None THEN None
        ELSE LET data == JsonLoads(span[1])
             IN  IF data.t # "object" THEN None
                 ELSE LET primary == Strip(Str(Get(data.v, "primary_category",
                                                   J("str", ClassifierText.CAT_OTHER))))
                      IN  IF primary \in PRIMARY_CATEGORIES
                          THEN Some(primary) ELSE Some(ClassifierText.CAT_OTHER)

\* ContractClassifier._heuristic_primary_category
HeuristicPrimaryCategory(text) ==
    LET text_l == Lower(text)
        lines  == SplitLines(text)
        head   == Lower(Join(<< " " >>, SubSeq(lines, 1, IF Len(lines) < 20
                                                         THEN Len(lines) ELSE 20)))
    IN  IF Contains(head, ClassifierText.KW_SERVICE_AGREEMENT) THEN ClassifierText.CAT_SERVICE_AGREEMENT
        ELSE IF Contains(head, ClassifierText.KW_EMPLOYMENT_AGREEMENT) THEN ClassifierText.CAT_EMPLOYMENT
        ELSE IF Contains(head, ClassifierText.KW_NON_DISCLOSURE) \/ Contains(head, ClassifierText.KW_NDA) THEN ClassifierText.CAT_NDA
        ELSE IF Contains(head, ClassifierText.KW_LEASE_AGREEMENT) THEN ClassifierText.CAT_LEASE
        ELSE IF Contains(head, ClassifierText.KW_INVESTMENT) THEN ClassifierText.CAT_INVESTOR
        ELSE IF Contains(text_l, ClassifierText.KW_SALARY) \/ Contains(text_l, ClassifierText.KW_EMPLOYEE)
        THEN ClassifierText.CAT_EMPLOYMENT
        ELSE IF Contains(text_l, ClassifierText.KW_RENT) THEN ClassifierText.CAT_LEASE
        ELSE IF Contains(text_l, ClassifierText.KW_CONFIDENTIAL) THEN ClassifierText.CAT_NDA
        ELSE ClassifierText.CAT_OTHER

\* ContractClassifier.classify_simple on an empty cache, as a function of
\* what the gateway returns: the category of the parsed response, or the
\* heuristic category when the text is shorter than 40 characters (the
\* gateway is then not called) or the response holds no JSON.
ClassifySimple(contract_text, gateway_return) ==
    LET text == Strip(OrDefault(contract_text, TXT_EMPTY))
    IN  IF Len(text) < 40 THEN HeuristicPrimaryCategory(text)
        ELSE LET result == IF Len(gateway_return) > 0
                           THEN ExtractJson(gateway_return) ELSE None
             IN  IF result # None THEN result[1]
                 ELSE HeuristicPrimaryCategory(text)

\* ------------------------------------------------------------------------
\* agents/clause_analyzer.py
\* ------------------------------------------------------------------------

\* ClauseAnalyzer._parse_json_safe / _parse_json_array_safe: the parsed span,
\* or null when the text is empty, has no span, or the span is not JSON.
ParseJsonSafe(text, open, close) ==
    IF Len(text) = 0 THEN JNull
    ELSE LET span == Span(text, open, close)
         IN  IF span = None THEN JNull
             ELSE LET data == JsonLoads(span[1])
                  IN  IF data.t = "error" THEN JNull ELSE data

\* Python truthiness of a parsed value.
JTruthy(value) ==
    CASE value.t = "null" -> FALSE
      [] value.t = "int" -> value.v # 0
      [] value.t = "str" -> Len(value.v) > 0
      [] value.t = "list" -> Len(value.v) > 0
      [] value.t = "object" -> DOMAIN value.v # {}

\* The entries of a sequence that satisfy keep, in order.
SelectItems(items, keep(_)) ==
    LET kept == { i \in 1..Len(items) : keep(items[i]) }
    IN  [k \in 1..Cardinality(kept) |->
            items[CHOOSE i \in kept : Cardinality({ j \in kept : j < i }) = k - 1]]

\* ClauseAnalyzer._to_list
ToList(value) ==
    IF value.t = "list"
    THEN LET strs == [i \in 1..Len(value.v) |-> Strip(Str(value.v[i]))]
             nonblank(s) == Len(s) > 0
         IN  SelectItems(strs, nonblank)
    ELSE IF JTruthy(value) THEN << Strip(Str(value)) >>
    ELSE << >>

\* int(value) as the scorers call it: an int is itself; a string is read as
\* a decimal number, with blanks around it and a sign allowed; None and every
\* other string raise (TypeError, ValueError).
int(value) ==
    LET s      == IF value.t = "str" THEN Strip(value.v) ELSE << >>
        signed == Len(s) > 0 /\ s[1] \in { "-", "+" }
        d      == IF signed THEN Tail(s) ELSE s
        RECURSIVE StrToInt(_)
        StrToInt(ds) ==
            IF Len(ds) = 0 THEN 0
            ELSE 10 * StrToInt(SubSeq(ds, 1, Len(ds) - 1))
                    + (CHOOSE n \in 0..9 : IntToStr(n) = << ds[Len(ds)] >>)
    IN  CASE value.t = "int" -> Return(value.v)
          [] Len(d) > 0 /\ \A i \in 1..Len(d) : d[i] \in Digits ->
                Return(IF s[1] = "-" THEN 0 - StrToInt(d) ELSE StrToInt(d))
          [] OTHER -> Raise

\* A _to_score that returns int(value) as it is.
ToScore_NoClamp(value) == LET v == int(value) IN IF v.raised THEN 50 ELSE v.val

\* ClauseAnalyzer._to_score: int(value) clamped to 0..100, and 50 when int()
\* raises.
ToScore(value) ==
    LET v == int(value)
    IN  IF v.raised THEN 50 ELSE Clamp(0, v.val, 100)

\* ClauseAnalyzer._default_response
ClauseDefault(clause_type, risk_score, findings) ==
    [clause_type |-> clause_type, risk_score |-> risk_score, risk_level |-> RiskLevels.LEVEL_MEDIUM,
     issues |-> IF Len(findings) > 0 THEN findings ELSE << ClauseText.ISSUE_MANUAL >>,
     fix |-> << ClauseText.FIX_DEFAULT >>, red_flags |-> << >>]

\* ClauseAnalyzer.analyze_clause as a function of what the gateway returns;
\* a blank clause text is answered without the gateway.
AnalyzeClause(clause_text, clause_type, gateway_return) ==
    IF Len(Strip(clause_text)) = 0
    THEN ClauseDefault(clause_type, 0, << ClauseText.ISSUE_NO_TEXT >>)
    ELSE LET parsed == ParseJsonSafe(gateway_return, "{", "}")
         IN  IF JTruthy(parsed)
             THEN [clause_type |-> clause_type,
                   risk_score |-> ToScore(Get(parsed.v, "risk_score", JNull)),
                   risk_level |-> Str(Get(parsed.v, "risk_level", J("str", RiskLevels.LEVEL_MEDIUM))),
                   issues |-> ToList(Get(parsed.v, "issues", JNull)),
                   fix |-> ToList(Get(parsed.v, "fix", JNull)),
                   red_flags |-> ToList(Get(parsed.v, "red_flags", JNull))]
             ELSE ClauseDefault(clause_type, 50, << >>)

\* ClauseAnalyzer.extract_clauses as a function of what the gateway returns:
\* the dict items of the parsed array, each reduced to a stripped type and text.
ExtractClauses(contract_text, gateway_return) ==
    IF Len(contract_text) = 0 THEN << >>
    ELSE LET parsed == ParseJsonSafe(gateway_return, "[", "]")
             isdict(item) == item.t = "object"
         IN  IF parsed.t = "list"
             THEN LET dicts == SelectItems(parsed.v, isdict)
                  IN  [i \in 1..Len(dicts) |->
                         [type |-> Strip(Str(Get(dicts[i].v, "type", J("str", ClauseText.CLAUSE_GENERAL)))),
                          text |-> Strip(Str(Get(dicts[i].v, "text", J("str", TXT_EMPTY))))]]
             ELSE << >>

\* ------------------------------------------------------------------------
\* agents/executor_agent.py: the state of one execute_full_analysis call
\* ------------------------------------------------------------------------

\* Calls made so far, by callee: classifier.classify_simple, the four
\* analysis agents, the clause analyzer's methods, summary_agent, and
\* call_hybrid_llm (by any of them).
NoCalls == [classifier |-> 0, agents |-> 0, clause |-> 0, report |-> 0, gateway |-> 0]

\* No call in progress; results is the dict as execute_full_analysis creates it.
ExIdle ==
    [pc |-> "idle", contract_text |-> None, safe_text |-> TXT_EMPTY,
     results |->
        [status |-> "started", contract_type |-> ClassifierText.CAT_OTHER, legal |-> TXT_EMPTY,
         finance |-> TXT_EMPTY, compliance |-> TXT_EMPTY, operations |-> TXT_EMPTY,
         clauses |-> << >>, final_report |-> TXT_EMPTY, risk_level |-> RiskLevels.LEVEL_MEDIUM,
         risk_score |-> 50, errors |-> << >>],
     calls |-> NoCalls]

\* execute_full_analysis(contract_text) at its entry.
ExEnter(contract_text) == [ExIdle EXCEPT !.pc = "start", !.contract_text = contract_text]
\* ------------------------------------------------------------------------
\* utils/parallel_runner.py (run_parallel_dict, run_agents_parallel) and
\* ExecutorAgent._run_parallel_agents
\* ------------------------------------------------------------------------

\* The task names, in the order in which the task dict is built.
TaskOrder == << "legal", "finance", "compliance", "operations" >>

TaskNames == { TaskOrder[i] : i \in 1..Len(TaskOrder) }

\* Ticks of the model clock in one per-task timeout.
TimeoutTicks == 2

\* What a task returns when it returns.
TaskValue(n) ==
    CASE n = "legal" -> RunnerText.VALUE_LEGAL
      [] n = "finance" -> RunnerText.VALUE_FINANCE
      [] n = "compliance" -> RunnerText.VALUE_COMPLIANCE
      [] n = "operations" -> RunnerText.VALUE_OPERATIONS

\* A result handler without its except clauses.
CollectResult_NoExcept(kind, behaviour, value) ==
    IF behaviour = "return" THEN Return(value) ELSE Raise

\* The body of the as_completed loop for a finished future: future.result()
\* returns the task's value or re-raises its exception.  A task's behaviour
\* is "return", "raise" (an Exception), "raise_timeout" (the TimeoutError
\* the runner imports from concurrent.futures), "raise_base" (a
\* BaseException that is not an Exception: SystemExit, KeyboardInterrupt)
\* or "hang" (it never finishes).  run_parallel_dict
\* maps TimeoutError to "TIMEOUT" and any other Exception to "ERROR";
\* _run_parallel_agents maps every Exception to "".  Neither catches a
\* BaseException that is not an Exception.
CollectResult(kind, behaviour, value) ==
    IF behaviour = "return" THEN Return(value)
    ELSE IF behaviour = "raise_base" THEN Raise
    ELSE IF kind = "_run_parallel_agents" THEN Return(Some(TXT_EMPTY))
    ELSE IF behaviour = "raise_timeout" THEN Return(Some(RunnerText.PLACEHOLDER_TIMEOUT))
    ELSE Return(Some(RunnerText.PLACEHOLDER_ERROR))

\* A collector that files the k-th finished task under the k-th submitted name.
ResultKey_ByPosition(n, collected_so_far) == TaskOrder[collected_so_far + 1]

\* name = future_map[future]: the key under which a future's result is stored.
ResultKey(n, collected_so_far) == n

RnIdle ==
    [kind |-> "run_parallel_dict", pc |-> "idle", names |-> {}, max_workers |-> 4,
     timeout |-> 0, behaviour |-> << >>, task |-> << >>,
     value |-> << >>, order |-> << >>, collected |-> {}, results |-> << >>,
     clock |-> 0]

\* The runner at its entry; timeout 0 stands for timeout_per_task=None.  The
\* results start as {} in run_parallel_dict, and as "" under each of the four
\* names in _run_parallel_agents.
RnEnter(kind, names, max_workers, timeout, behaviour) ==
    [kind |-> kind, pc |-> "start", names |-> names, max_workers |-> max_workers,
     timeout |-> timeout, behaviour |-> behaviour,
     task |-> [n \in names |-> "new"],
     value |-> [n \in names |-> None], order |-> << >>,
     collected |-> {},
     results |-> IF kind = "_run_parallel_agents"
                 THEN [n \in TaskNames |-> TXT_EMPTY] ELSE << >>,
     clock |-> 0]

\* `if not task_dict: return {}`, else every task is submitted to the pool.
RnStart ==
    /\ rn.pc = "start"
    /\ rn' = IF rn.names = {}
             THEN [rn EXCEPT !.pc = "returned"]
             ELSE [rn EXCEPT !.pc = "collect", !.task = [n \in rn.names |-> "queued"]]
    /\ UNCHANGED << gw, ag, ex, mem, rk, th, hist, ch, mt, cc >>

Running == { n \in rn.names : rn.task[n] = "running" }

\* A free worker of the pool takes a submitted task.
TaskStart(n) ==
    /\ rn.pc = "collect"
    /\ rn.task[n] = "queued"
    /\ Cardinality(Running) < rn.max_workers
    /\ rn' = [rn EXCEPT !.task[n] = "running"]
    /\ UNCHANGED << gw, ag, ex, mem, rk, th, hist, ch, mt, cc >>

\* The values task n can return: in the executor's pool (the lambdas of
\* _run_parallel_agents) the agent's output for each gateway return, the
\* providers answering its prompt with a short or a long text; elsewhere the
\* task's fixed value.
TaskResults(n) ==
    IF rn.behaviour[n] # "return" THEN { None }
    ELSE IF ex.pc = "agents"
    THEN LET entry == AgentEntry(n, Some(ex.safe_text))
         IN  IF entry.ret # None THEN { entry.ret }
             ELSE { Some(AgentResponse(n, entry.text, Return(Some(r)))) :
                      r \in GatewayReturns(entry.prompt, "analysis", { ProviderText.TXT_OK, ProviderText.TXT_ANSWER }) }
    ELSE { Some(TaskValue(n)) }

\* A running task ends, by returning or by raising; a hanging task never
\* does.  In the executor's pool the agent's call and its gateway call are
\* counted.
TaskFinish(n) ==
    /\ rn.pc = "collect"
    /\ rn.task[n] = "running"
    /\ rn.behaviour[n] # "hang"
    /\ \E v \in TaskResults(n) :
          rn' = [rn EXCEPT !.task[n] = "finished", !.value[n] = v,
                           !.order = Append(@, n)]
    /\ ex' = IF ex.pc # "agents" THEN ex
             ELSE [ex EXCEPT !.calls.agents = @ + 1,
                             !.calls.gateway =
                                 IF AgentEntry(n, Some(ex.safe_text)).ret = None
                                 THEN @ + 1 ELSE @]
    /\ UNCHANGED << gw, ag, mem, rk, th, hist, ch, mt, cc >>

\* Futures that have finished and that as_completed has not yet yielded.
Ready == { n \in rn.names : rn.task[n] = "finished" /\ n \notin rn.collected }

\* as_completed yields a finished future and the loop body stores its result;
\* the runner is no longer waiting, so the clock of its wait starts afresh.
RnCollect(n) ==
    /\ rn.pc = "collect"
    /\ n \in Ready
    /\ LET r   == CollectResult(rn.kind, rn.behaviour[n], rn.value[n])
           key == ResultKey(n, Cardinality(rn.collected))
       IN  rn' = IF r.raised
                 THEN [rn EXCEPT !.pc = "raised"]
                 ELSE [rn EXCEPT !.collected = @ \cup {n}, !.clock = 0,
                                 !.results = (key :> r.val[1]) @@ @]
    /\ UNCHANGED << gw, ag, ex, mem, rk, th, hist, ch, mt, cc >>

\* as_completed is exhausted once every future has been yielded; the pool
\* shuts down (all its tasks have ended) and the runner returns.
RnReturn ==
    /\ rn.pc = "collect"
    /\ rn.collected = rn.names
    /\ rn' = [rn EXCEPT !.pc = "returned"]
    /\ UNCHANGED << gw, ag, ex, mem, rk, th, hist, ch, mt, cc >>

\* The runner is blocked in as_completed, which is called without a timeout:
\* no finished future is waiting, and every outstanding task is running or
\* queued behind a full pool.
Blocked ==
    /\ rn.pc = "collect"
    /\ Ready = {}
    /\ rn.collected # rn.names
    /\ \A n \in rn.names : rn.task[n] = "queued" => Cardinality(Running) >= rn.max_workers

\* Time passes while the runner is blocked: rn.clock counts the ticks of the
\* current wait, and stops one tick after a timeout has passed.
Tick ==
    /\ Blocked
    /\ rn.clock < TimeoutTicks + 1
    /\ rn' = [rn EXCEPT !.clock = @ + 1]
    /\ UNCHANGED << gw, ag, ex, mem, rk, th, hist, ch, mt, cc >>

\* The steps of run_parallel_dict, of its pool and of its tasks.
RunnerStep ==
    \/ RnStart
    \/ \E n \in rn.names : TaskStart(n) \/ TaskFinish(n) \/ RnCollect(n)
    \/ RnReturn


\* ------------------------------------------------------------------------
\* agents/executor_agent.py: ExecutorAgent.execute_full_analysis
\* ------------------------------------------------------------------------

\* An input guard that forgets to strip.
SafeText_NoStrip(contract_text) == IF contract_text = None THEN TXT_EMPTY ELSE contract_text[1]

\* safe_text = (contract_text or "").strip()
SafeText(contract_text) == Strip(IF contract_text = None THEN TXT_EMPTY ELSE contract_text[1])

\* The input guard: an empty safe_text ends the call with status "failed".
ExStart ==
    /\ ex.pc = "start"
    /\ LET safe_text == SafeText(ex.contract_text)
       IN  ex' = IF Len(safe_text) = 0
                 THEN [ex EXCEPT !.pc = "returned", !.safe_text = safe_text,
                                 !.results.status = "failed",
                                 !.results.errors = Append(@, ExecutorText.ERR_NO_TEXT)]
                 ELSE [ex EXCEPT !.pc = "classify", !.safe_text = safe_text]
    /\ UNCHANGED << gw, ag, rn, mem, rk, th, hist, ch, mt, cc >>

\* Step 1: results["contract_type"] = self.classifier.classify_simple(safe_text).
\* The classifier calls the gateway for a text of 40 characters or more, with
\* a prompt that keeps text[:1400] (its JSON schema block abridged); the
\* providers answer with a JSON object, a JSON object inside prose, or prose.
ExClassify ==
    /\ ex.pc = "classify"
    /\ LET calls == Len(Strip(ex.safe_text)) >= 40
           returns == IF calls
                      THEN GatewayReturns(
                               ClassifierText.CLASSIFIER_PROMPT_HEAD \o ClassifierText.PROMPT_CONTRACT_COLON
                                   \o Take(ex.safe_text, 1400) \o << "\n" >>,
                               "analysis",
                               { ClassifierText.JSON_CATEGORY_LEASE,
                                 ClassifierText.TXT_SURE \o ClassifierText.JSON_CATEGORY_ALIEN \o ClassifierText.TXT_DONE, ProviderText.TXT_ANSWER })
                      ELSE { TXT_EMPTY }
       IN  \E r \in returns :
              ex' = [ex EXCEPT !.pc = "run_agents",
                               !.results.contract_type = ClassifySimple(Some(ex.safe_text), r),
                               !.calls.classifier = @ + 1,
                               !.calls.gateway = IF calls THEN @ + 1 ELSE @]
    /\ UNCHANGED << gw, ag, rn, mem, rk, th, hist, ch, mt, cc >>

\* Step 2: _run_parallel_agents submits the four agents to its pool; each
\* agent returns a string or raises an Exception (none of them, the first of
\* them, or all of them).  timeout_per_agent is TimeoutTicks ticks of the
\* model clock.
ExRunAgents ==
    /\ ex.pc = "run_agents"
    /\ ex' = [ex EXCEPT !.pc = "agents"]
    /\ \E raising \in { {}, { "legal" }, TaskNames } :
          rn' = RnEnter("_run_parallel_agents", TaskNames, 4, TimeoutTicks,
                        [n \in TaskNames |-> IF n \in raising THEN "raise" ELSE "return"])
    /\ UNCHANGED << gw, ag, mem, rk, th, hist, ch, mt, cc >>

\* An executor that takes agent_outputs while the pool is still at work.
ExAgentsDone_Early ==
    /\ ex.pc = "agents"
    /\ rn.pc \in { "collect", "returned" }
    /\ ex' = [ex EXCEPT !.pc = "clauses",
                        !.results.legal = rn.results["legal"],
                        !.results.finance = rn.results["finance"],
                        !.results.compliance = rn.results["compliance"],
                        !.results.operations = rn.results["operations"]]
    /\ rn' = RnIdle
    /\ UNCHANGED << gw, ag, mem, rk, th, hist, ch, mt, cc >>

\* _run_parallel_agents has returned: results.update(agent_outputs).
ExAgentsDone ==
    /\ ex.pc = "agents"
    /\ rn.pc = "returned"
    /\ ex' = [ex EXCEPT !.pc = "clauses",
                        !.results.legal = rn.results["legal"],
                        !.results.finance = rn.results["finance"],
                        !.results.compliance = rn.results["compliance"],
                        !.results.operations = rn.results["operations"]]
    /\ rn' = RnIdle
    /\ UNCHANGED << gw, ag, mem, rk, th, hist, ch, mt, cc >>

\* Step 3: extract_clauses, then analyze_clauses when any clause was found.
\* Each of the two prompts keeps its excerpt (contract_text[:3000],
\* clause_text[:1200]); the providers answer the first with a JSON array, an
\* array inside prose, or prose, and the second with a JSON object or prose.
ExClauses ==
    /\ ex.pc = "clauses"
    /\ LET list_returns ==
               GatewayReturns(ClauseText.CLAUSES_PROMPT_HEAD \o ClassifierText.PROMPT_CONTRACT_COLON
                                  \o Take(ex.safe_text, 3000) \o << "\n" >>,
                              "analysis",
                              { ClauseText.JSON_CLAUSES_ONE, ClauseText.TXT_CLAUSES \o ClauseText.JSON_CLAUSES_TWO, ProviderText.TXT_ANSWER })
           risk_returns(c) ==
               GatewayReturns(ClauseText.CLAUSE_PROMPT_HEAD \o ClauseText.PROMPT_CLAUSE_TYPE \o c.type
                                  \o ClauseText.PROMPT_CLAUSE_COLON \o Take(c.text, 1200) \o << "\n" >>,
                              "analysis", { ClauseText.JSON_RISK_HIGH, ClauseText.JSON_RISK_OVER, ProviderText.TXT_ANSWER })
       IN  \E r \in list_returns :
              LET clauses == ExtractClauses(ex.safe_text, r)
                  n       == Len(clauses)
                  all     == UNION { risk_returns(clauses[i]) : i \in 1..n }
              IN  \E rs \in { f \in [1..n -> all] :
                                 \A i \in 1..n : f[i] \in risk_returns(clauses[i]) } :
                     ex' = [ex EXCEPT
                              !.pc = "summary",
                              !.results.clauses =
                                  [i \in 1..n |->
                                      AnalyzeClause(clauses[i].text, clauses[i].type, rs[i])],
                              !.calls.clause = @ + 1 + n,
                              !.calls.gateway =
                                  @ + 1 + Cardinality({ i \in 1..n :
                                                          Len(Strip(clauses[i].text)) > 0 })]
    /\ UNCHANGED << gw, ag, rn, mem, rk, th, hist, ch, mt, cc >>

\* Step 4: results["final_report"] = summary_agent(full_context=safe_text,
\* agent_results=agent_dict, contract_type=results["contract_type"])
ExSummary ==
    /\ ex.pc = "summary"
    /\ LET agent_dict ==
               [Legal |-> ex.results.legal, Finance |-> ex.results.finance,
                Compliance |-> ex.results.compliance, Operations |-> ex.results.operations]
       IN  \E r \in GatewayReturns(SummaryPrompt(ex.safe_text, agent_dict), "summary",
                                  { ProviderText.TXT_ANSWER, ProviderText.TXT_MARKER }) :
              ex' = [ex EXCEPT !.pc = "risk",
                               !.results.final_report =
                                   SummaryResponse(agent_dict, ex.results.contract_type,
                                                   Return(Some(r))),
                               !.calls.report = @ + 1,
                               !.calls.gateway = @ + 1]
    /\ UNCHANGED << gw, ag, rn, mem, rk, th, hist, ch, mt, cc >>

\* sum(clause_scores)
RECURSIVE SumScores(_)
SumScores(clause_scores) ==
    IF Len(clause_scores) = 0 THEN 0
    ELSE Head(clause_scores) + SumScores(Tail(clause_scores))

\* A level test that puts the two thresholds themselves in the lower level.
RiskLevel_Inclusive(base) ==
    IF base <= 30 THEN RiskLevels.LEVEL_LOW ELSE IF base <= 70 THEN RiskLevels.LEVEL_MEDIUM ELSE RiskLevels.LEVEL_HIGH

\* The level that _calculate_risk returns with its score: below 30 is Low,
\* below 70 Medium, anything else High.
RiskLevel(base) ==
    IF base < 30 THEN RiskLevels.LEVEL_LOW ELSE IF base < 70 THEN RiskLevels.LEVEL_MEDIUM ELSE RiskLevels.LEVEL_HIGH

\* An aggregator without `base = max(0, min(100, base))`.
CalculateRisk_NoClamp(clauses) ==
    LET tried  == [i \in 1..Len(clauses) |->
                      int(Get(clauses[i], "risk_score", J("int", 50)))]
        kept   == SelectItems(tried, LAMBDA r : ~r.raised)
        n      == Len(kept)
        total  == 50 * n + SumScores([k \in 1..n |-> kept[k].val])
        base   == IF n = 0 THEN 50
                  ELSE IF total >= 0 THEN total \div (2 * n)
                  ELSE 0 - ((0 - total) \div (2 * n))
    IN  [level |-> RiskLevel(base), score |-> base]

\* An aggregator that returns the mean of the clause scores, without the
\* base of 50.
CalculateRisk_MeanOnly(clauses) ==
    LET tried  == [i \in 1..Len(clauses) |->
                      int(Get(clauses[i], "risk_score", J("int", 50)))]
        kept   == SelectItems(tried, LAMBDA r : ~r.raised)
        n      == Len(kept)
        total  == SumScores([k \in 1..n |-> kept[k].val])
        base   == IF n = 0 THEN 50
                  ELSE IF total >= 0 THEN total \div n
                  ELSE 0 - ((0 - total) \div n)
    IN  [level |-> RiskLevel(Clamp(0, base, 100)), score |-> Clamp(0, base, 100)]

\* ExecutorAgent._calculate_risk on results["clauses"], a list of dicts.  It
\* collects int(c.get("risk_score", 50)) of every clause for which int() does
\* not raise; with any score collected, base = int((50 + sum/len) / 2), int()
\* dropping the fraction (towards zero); base is clamped to 0..100.
CalculateRisk(clauses) ==
    LET tried  == [i \in 1..Len(clauses) |->
                      int(Get(clauses[i], "risk_score", J("int", 50)))]
        kept   == SelectItems(tried, LAMBDA r : ~r.raised)
        n      == Len(kept)
        total  == 50 * n + SumScores([k \in 1..n |-> kept[k].val])
        base   == IF n = 0 THEN 50
                  ELSE IF total >= 0 THEN total \div (2 * n)
                  ELSE 0 - ((0 - total) \div (2 * n))
    IN  [level |-> RiskLevel(Clamp(0, base, 100)), score |-> Clamp(0, base, 100)]

\* Step 5: the risk score; the call completes and returns its results.
ExRisk ==
    /\ ex.pc = "risk"
    /\ LET risk == CalculateRisk([i \in 1..Len(ex.results.clauses) |->
                                     "risk_score" :>
                                         J("int", ex.results.clauses[i].risk_score)])
       IN  ex' = [ex EXCEPT !.pc = "returned",
                            !.results.risk_level = risk.level,
                            !.results.risk_score = risk.score,
                            !.results.status = "completed"]
    /\ UNCHANGED << gw, ag, rn, mem, rk, th, hist, ch, mt, cc >>

\* A handler that lets the exception of a stage go on to the caller.
ExExcept_Propagate ==
    /\ ex.pc \in { "classify", "clauses", "summary" }
    /\ ex' = [ex EXCEPT !.pc = "raised"]
    /\ UNCHANGED << gw, ag, rn, mem, rk, th, hist, ch, mt, cc >>

\* A handler that starts the results afresh before it reports the failure.
ExExcept_Reset ==
    /\ ex.pc \in { "classify", "clauses", "summary" }
    /\ ex' = [ex EXCEPT !.pc = "returned",
                        !.results = [ExIdle.results EXCEPT
                                        !.status = "failed",
                                        !.errors = << << "b", "o", "o", "m" >> >>]]
    /\ UNCHANGED << gw, ag, rn, mem, rk, th, hist, ch, mt, cc >>

\* `except Exception as e` around steps 1 to 5: the classifier, the clause
\* analyzer or summary_agent raises an Exception with the message "boom";
\* the handler sets status "failed", appends str(e) and the call returns.
ExExcept ==
    /\ ex.pc \in { "classify", "clauses", "summary" }
    /\ ex' = [ex EXCEPT !.pc = "returned",
                        !.results.status = "failed",
                        !.results.errors = Append(@, << "b", "o", "o", "m" >>),
                        !.calls.classifier = IF ex.pc = "classify" THEN @ + 1 ELSE @,
                        !.calls.clause = IF ex.pc = "clauses" THEN @ + 1 ELSE @,
                        !.calls.report = IF ex.pc = "summary" THEN @ + 1 ELSE @]
    /\ UNCHANGED << gw, ag, rn, mem, rk, th, hist, ch, mt, cc >>

\* ------------------------------------------------------------------------
\* memory/memory.py: ContractMemory
\* ------------------------------------------------------------------------

\* Calls of ContractMemory methods in one behaviour.
MaxCalls == 3

\* The instants that datetime.now() reads at the ticks 0, 1, ... of the
\* clock, as (year, month, day, hour, minute, second): two in one minute, the
\* next in the first minute of the next year, and later days and months.
Instants ==
    << << 2025, 12, 31, 23, 59, 10 >>, << 2025, 12, 31, 23, 59, 40 >>,
       << 2026, 1, 1, 0, 0, 5 >>, << 2026, 1, 20, 9, 30, 0 >>,
       << 2026, 2, 3, 18, 5, 0 >>, << 2026, 11, 2, 7, 45, 0 >>,
       << 2027, 3, 9, 12, 0, 0 >> >>

\* datetime.strftime("%d %b %Y %H:%M")
strftime(instant) ==
    LET months == << << "J", "a", "n" >>, << "F", "e", "b" >>, << "M", "a", "r" >>,
                     << "A", "p", "r" >>, << "M", "a", "y" >>, << "J", "u", "n" >>,
                     << "J", "u", "l" >>, << "A", "u", "g" >>, << "S", "e", "p" >>,
                     << "O", "c", "t" >>, << "N", "o", "v" >>, << "D", "e", "c" >> >>
        two(n) == IF n < 10 THEN << "0" >> \o IntToStr(n) ELSE IntToStr(n)
    IN  two(instant[3]) \o << " " >> \o months[instant[2]] \o << " " >>
            \o IntToStr(instant[1]) \o << " " >> \o two(instant[4]) \o << ":" >>
            \o two(instant[5])

\* ContractMemory.__init__: no session and no hash.  `order` lists the keys
\* of sessions as the dict keeps them, in the order of their insertion.
\* `now` is the tick at which datetime.now() was last read, `calls` the
\* number of method calls made, `last` the latest call with its outcome, and
\* `issued` the (text, identifier) pairs of the create_session calls that
\* returned.
ContractMemory ==
    [sessions |-> [i \in {} |-> i], contract_hash_map |-> [h \in {} |-> h],
     order |-> << >>, now |-> 0, calls |-> 0,
     last |-> [op |-> "none", args |-> << >>, ret |-> Return(None)],
     issued |-> {}]

\* A digest of the text as it is passed.
Hash_NoStrip(text) == text

\* _hash: hashlib.md5(text.strip().encode()).hexdigest().  Two texts have
\* the same digest exactly when their stripped forms are equal (collisions
\* of md5 set aside), so the digest is represented by the stripped text.
Hash(text) == Strip(text)

\* A create_session that never looks for a duplicate.
create_session_NoDuplicateCheck(contract_name, contract_text, contract_type, now, hex) ==
    /\ mem.calls < MaxCalls
    /\ LET h          == Hash(contract_text)
           session_id == << "contract", now, hex >>
           session    ==
               [name |-> IF Len(contract_name) > 0 THEN contract_name
                         ELSE << "U", "n", "t", "i", "t", "l", "e", "d", " ",
                                 "C", "o", "n", "t", "r", "a", "c", "t" >>,
                text |-> contract_text,
                type |-> IF Len(contract_type) > 0 THEN contract_type
                         ELSE << "U", "n", "k", "n", "o", "w", "n" >>,
                analyses |-> [a \in {} |-> a],
                final_report |-> TXT_EMPTY,
                created |-> strftime(Instants[now + 1])]
           ret        == IF Len(contract_text) = 0 THEN Raise ELSE Return(session_id)
           created    == Len(contract_text) > 0
       IN  mem' = [mem EXCEPT
                     !.calls = @ + 1, !.now = now,
                     !.sessions =
                         IF created
                         THEN [i \in DOMAIN @ \cup { session_id } |->
                                  IF i = session_id THEN session ELSE @[i]]
                         ELSE @,
                     !.order = IF created /\ session_id \notin DOMAIN mem.sessions
                               THEN Append(@, session_id) ELSE @,
                     !.contract_hash_map =
                         IF created
                         THEN [k \in DOMAIN @ \cup { h } |->
                                  IF k = h THEN session_id ELSE @[k]]
                         ELSE @,
                     !.last = [op |-> "create_session",
                               args |-> << contract_name, contract_text, contract_type >>,
                               ret |-> ret],
                     !.issued = IF ret.raised THEN @
                                ELSE @ \cup { << contract_text, ret.val >> }]
    /\ UNCHANGED << gw, ag, rn, ex, rk, th, hist, ch, mt, cc >>

\* create_session(contract_name, contract_text, contract_type), called when
\* the clock reads `now` and uuid4().hex[:4] is `hex`.  An empty text raises
\* ValueError; a text whose hash is in contract_hash_map (find_duplicate)
\* returns the session stored under it; any other text gets the identifier
\* "contract_<now>_<hex>", a new session record under it (replacing what
\* was there) and its hash in the map.
create_session(contract_name, contract_text, contract_type, now, hex) ==
    /\ mem.calls < MaxCalls
    /\ LET h          == Hash(contract_text)
           session_id == << "contract", now, hex >>
           session    ==
               [name |-> IF Len(contract_name) > 0 THEN contract_name
                         ELSE << "U", "n", "t", "i", "t", "l", "e", "d", " ",
                                 "C", "o", "n", "t", "r", "a", "c", "t" >>,
                text |-> contract_text,
                type |-> IF Len(contract_type) > 0 THEN contract_type
                         ELSE << "U", "n", "k", "n", "o", "w", "n" >>,
                analyses |-> [a \in {} |-> a],
                final_report |-> TXT_EMPTY,
                created |-> strftime(Instants[now + 1])]
           ret        == IF Len(contract_text) = 0 THEN Raise
                         ELSE IF h \in DOMAIN mem.contract_hash_map
                         THEN Return(mem.contract_hash_map[h])
                         ELSE Return(session_id)
           created    == Len(contract_text) > 0 /\ h \notin DOMAIN mem.contract_hash_map
       IN  mem' = [mem EXCEPT
                     !.calls = @ + 1, !.now = now,
                     !.sessions =
                         IF created
                         THEN [i \in DOMAIN @ \cup { session_id } |->
                                  IF i = session_id THEN session ELSE @[i]]
                         ELSE @,
                     !.order = IF created /\ session_id \notin DOMAIN mem.sessions
                               THEN Append(@, session_id) ELSE @,
                     !.contract_hash_map =
                         IF created
                         THEN [k \in DOMAIN @ \cup { h } |->
                                  IF k = h THEN session_id ELSE @[k]]
                         ELSE @,
                     !.last = [op |-> "create_session",
                               args |-> << contract_name, contract_text, contract_type >>,
                               ret |-> ret],
                     !.issued = IF ret.raised THEN @
                                ELSE @ \cup { << contract_text, ret.val >> }]
    /\ UNCHANGED << gw, ag, rn, ex, rk, th, hist, ch, mt, cc >>

\* A store_analysis without `if not session: return`: session is None for
\* an unknown identifier and subscripting it raises.
store_analysis_NoGuard(session_id, agent_name, result) ==
    /\ mem.calls < MaxCalls
    /\ mem' = [mem EXCEPT
                 !.calls = @ + 1,
                 !.sessions =
                     IF session_id \notin DOMAIN @ THEN @
                     ELSE [@ EXCEPT ![session_id].analyses =
                              [a \in DOMAIN @ \cup { agent_name } |->
                                  IF a # agent_name THEN @[a]
                                  ELSE IF result = None THEN TXT_EMPTY ELSE result[1]]],
                 !.last = [op |-> "store_analysis",
                           args |-> << session_id, agent_name, result >>,
                           ret |-> IF session_id \in DOMAIN mem.sessions
                                   THEN Return(None) ELSE Raise]]
    /\ UNCHANGED << gw, ag, rn, ex, rk, th, hist, ch, mt, cc >>

\* store_analysis(session_id, agent_name, result): nothing for an unknown
\* session_id; else session["analyses"][agent_name] = result or "".
store_analysis(session_id, agent_name, result) ==
    /\ mem.calls < MaxCalls
    /\ mem' = [mem EXCEPT
                 !.calls = @ + 1,
                 !.sessions =
                     IF session_id \notin DOMAIN @ THEN @
                     ELSE [@ EXCEPT ![session_id].analyses =
                              [a \in DOMAIN @ \cup { agent_name } |->
                                  IF a # agent_name THEN @[a]
                                  ELSE IF result = None THEN TXT_EMPTY ELSE result[1]]],
                 !.last = [op |-> "store_analysis",
                           args |-> << session_id, agent_name, result >>,
                           ret |-> Return(None)]]
    /\ UNCHANGED << gw, ag, rn, ex, rk, th, hist, ch, mt, cc >>

\* store_final_report(session_id, report): nothing for an unknown
\* session_id; else session["final_report"] = report or "".
store_final_report(session_id, report) ==
    /\ mem.calls < MaxCalls
    /\ mem' = [mem EXCEPT
                 !.calls = @ + 1,
                 !.sessions =
                     IF session_id \notin DOMAIN @ THEN @
                     ELSE [@ EXCEPT ![session_id].final_report =
                              IF report = None THEN TXT_EMPTY ELSE report[1]],
                 !.last = [op |-> "store_final_report",
                           args |-> << session_id, report >>,
                           ret |-> Return(None)]]
    /\ UNCHANGED << gw, ag, rn, ex, rk, th, hist, ch, mt, cc >>

\* list_history(): one dict per session, in the order of the sessions dict,
\* then history.sort(key=lambda x: x["created"], reverse=True): a stable
\* sort on the "created" strings, compared character by character by code
\* point, the greatest first and equal ones in the order they had.
list_history ==
    /\ mem.calls < MaxCalls
    /\ LET history ==
               [i \in DOMAIN mem.order |->
                   LET data == mem.sessions[mem.order[i]]
                   IN  [session_id |-> mem.order[i], name |-> data.name,
                        type |-> data.type, created |-> data.created]]
           ascii == << " ", "0", "1", "2", "3", "4", "5", "6", "7", "8", "9", ":",
                       "A", "B", "C", "D", "E", "F", "G", "H", "I", "J", "K", "L", "M",
                       "N", "O", "P", "Q", "R", "S", "T", "U", "V", "W", "X", "Y", "Z",
                       "a", "b", "c", "d", "e", "f", "g", "h", "i", "j", "k", "l", "m",
                       "n", "o", "p", "q", "r", "s", "t", "u", "v", "w", "x", "y", "z" >>
           ord(c) == CHOOSE k \in DOMAIN ascii : ascii[k] = c
           greater(a, b) ==
               \/ \E k \in 1..Len(a) :
                     /\ k <= Len(b)
                     /\ SubSeq(a, 1, k - 1) = SubSeq(b, 1, k - 1)
                     /\ ord(a[k]) > ord(b[k])
               \/ Len(a) > Len(b) /\ SubSeq(a, 1, Len(b)) = b
           place(i) ==
               1 + Cardinality({ j \in DOMAIN history :
                                    \/ greater(history[j].created, history[i].created)
                                    \/ j < i /\ history[j].created = history[i].created })
           sorted == [p \in DOMAIN history |->
                         history[CHOOSE i \in DOMAIN history : place(i) = p]]
       IN  mem' = [mem EXCEPT
                     !.calls = @ + 1,
                     !.last = [op |-> "list_history", args |-> << >>, ret |-> Return(sorted)]]
    /\ UNCHANGED << gw, ag, rn, ex, rk, th, hist, ch, mt, cc >>

\* ------------------------------------------------------------------------
\* The two risk scorers, called on their own
\* ------------------------------------------------------------------------

\* Clause records in the list that _calculate_risk is given.
MaxClauses == 2

\* No scorer call in progress.
RkIdle == [pc |-> "idle", fn |-> "none", arg |-> << >>,
           out |-> [level |-> TXT_EMPTY, score |-> 0]]

\* ExecutorAgent._calculate_risk({"clauses": arg}) returns (level, score).
RkAggregate ==
    /\ rk.pc = "call"
    /\ rk.fn = "_calculate_risk"
    /\ rk' = [rk EXCEPT !.pc = "done", !.out = CalculateRisk(rk.arg)]
    /\ UNCHANGED << gw, ag, rn, ex, mem, th, hist, ch, mt, cc >>

\* calculate_risk_score(arg) returns (level, score).
RkScan ==
    /\ rk.pc = "call"
    /\ rk.fn = "calculate_risk_score"
    /\ rk' = [rk EXCEPT !.pc = "done", !.out = Call(calculate_risk_score, rk.arg)]
    /\ UNCHANGED << gw, ag, rn, ex, mem, th, hist, ch, mt, cc >>
\* ------------------------------------------------------------------------
\* Specification of one gateway call (both gateway modules)
\* ------------------------------------------------------------------------

\* A direct caller enters call_hybrid_llm of either module, with or without
\* an API key, with an empty, blank, short or long prompt and any role.
InitGateway ==
    /\ \E impl \in {"hybrid_llm", "ollama_engine"}, haskey \in BOOLEAN,
          prompt \in { TXT_EMPTY, ProviderText.TXT_BLANK, ProviderText.TXT_OK, ProviderText.TXT_ANSWER },
          role \in {"analysis", "summary", "report", "final"} :
          gw = GwEnter(impl, haskey, prompt, role)
    /\ ag = AgIdle
    /\ rn = RnIdle
    /\ ex = ExIdle
    /\ mem = ContractMemory
    /\ rk = RkIdle
    /\ th = [pc |-> << >>]
    /\ hist = [pc |-> "idle", history |-> << >>]
    /\ ch = [pc |-> "idle"]
    /\ mt = [kind |-> "none"]
    /\ cc = [pc |-> "idle"]

SpecGateway == InitGateway /\ [][GatewayStep]_vars

\* ------------------------------------------------------------------------
\* Specification of one agent call on top of the gateway
\* ------------------------------------------------------------------------

\* An analysis agent is called on a missing, empty, blank, short or long
\* contract text.  summary_agent and generate_final_report are called on
\* agent outputs that are the gateway's static fallback string in every slot
\* or the heuristic texts for ExecutorText.CT_LONG; on the latter generate_final_report
\* runs with CLAUSEAI_SKIP_SUMMARY_LLM=1.
InitAgents ==
    /\ rn = RnIdle
    /\ ex = ExIdle
    /\ mem = ContractMemory
    /\ rk = RkIdle
    /\ th = [pc |-> << >>]
    /\ hist = [pc |-> "idle", history |-> << >>]
    /\ ch = [pc |-> "idle"]
    /\ mt = [kind |-> "none"]
    /\ cc = [pc |-> "idle"]
    /\ \E haskey \in BOOLEAN : gw = [GwIdle EXCEPT !.haskey = haskey]
    /\ LET ContractTexts ==
               { None, Some(TXT_EMPTY), Some(ExecutorText.CT_BLANK), Some(ExecutorText.CT_SHORT), Some(ExecutorText.CT_17),
                 Some(ExecutorText.CT_LONG) }
           HeuristicResults ==
               [Legal |-> LegalFallback(Strip(ExecutorText.CT_LONG)),
                Finance |-> FinanceFallback(Strip(ExecutorText.CT_LONG)),
                Compliance |-> ComplianceFallback(Strip(ExecutorText.CT_LONG)),
                Operations |-> OperationsFallback(Strip(ExecutorText.CT_LONG))]
           StaticResults ==
               [Legal |-> HybridText.HYBRID_FALLBACK_ANALYSIS, Finance |-> HybridText.HYBRID_FALLBACK_ANALYSIS,
                Compliance |-> HybridText.HYBRID_FALLBACK_ANALYSIS,
                Operations |-> HybridText.HYBRID_FALLBACK_ANALYSIS]
       IN  \/ \E name \in TaskNames, ct \in ContractTexts :
                 ag = AgEnter(name, ct, Some(ExecutorText.TYPE_NDA), AgIdle.results, FALSE)
           \/ \E ct \in {None, Some(ExecutorText.CT_LONG)}, ctype \in {None, Some(ExecutorText.TYPE_NDA)},
                 results \in { HeuristicResults, StaticResults } :
                 ag = AgEnter("summary", ct, ctype, results, FALSE)
           \/ \E ctype \in {None, Some(ExecutorText.TYPE_NDA)}, skip \in BOOLEAN :
                 ag = AgEnter("report", None, ctype, StaticResults, skip)
           \/ ag = AgEnter("report", None, Some(ExecutorText.TYPE_NDA), HeuristicResults, TRUE)

NextAgents ==
    \/ AgentCall
    \/ AgentReturn
    \/ AgentGatewayStep

SpecAgents == InitAgents /\ [][NextAgents]_vars

\* ------------------------------------------------------------------------
\* Specification of one batch of the parallel runner
\* ------------------------------------------------------------------------

\* run_parallel_dict is handed a task dict that is empty, has one task, the
\* three tasks of run_agents_parallel without operations_fn, or all four;
\* _run_parallel_agents always runs the four.  At most one task of a batch
\* does not return.
InitRunner ==
    /\ gw = GwIdle
    /\ ag = AgIdle
    /\ ex = ExIdle
    /\ mem = ContractMemory
    /\ rk = RkIdle
    /\ th = [pc |-> << >>]
    /\ hist = [pc |-> "idle", history |-> << >>]
    /\ ch = [pc |-> "idle"]
    /\ mt = [kind |-> "none"]
    /\ cc = [pc |-> "idle"]
    /\ LET TaskBehaviours(names) ==
               { b \in [names -> {"return", "raise", "raise_timeout", "raise_base", "hang"}] :
                   Cardinality({ n \in names : b[n] # "return" }) <= 1 }
       IN  \/ \E names \in { {}, {"legal"}, TaskNames \ {"operations"}, TaskNames },
                 max_workers \in {2, 4}, timeout \in {0, TimeoutTicks} :
                 \E behaviour \in TaskBehaviours(names) :
                    rn = RnEnter("run_parallel_dict", names, max_workers, timeout, behaviour)
           \/ \E behaviour \in TaskBehaviours(TaskNames) :
                 rn = RnEnter("_run_parallel_agents", TaskNames, 4, TimeoutTicks, behaviour)

NextRunner ==
    \/ RunnerStep
    \/ Tick

SpecRunner == InitRunner /\ [][NextRunner]_vars

\* ------------------------------------------------------------------------
\* Specification of one execute_full_analysis call
\* ------------------------------------------------------------------------

\* execute_full_analysis is called on a missing, empty, blank, short or
\* long contract text.
InitExecutor ==
    /\ gw = GwIdle
    /\ ag = AgIdle
    /\ rn = RnIdle
    /\ \E contract_text \in { None, Some(TXT_EMPTY), Some(ExecutorText.CT_BLANK), Some(ExecutorText.CT_SHORT),
                              Some(ExecutorText.CT_LONG) } :
          ex = ExEnter(contract_text)
    /\ mem = ContractMemory
    /\ rk = RkIdle
    /\ th = [pc |-> << >>]
    /\ hist = [pc |-> "idle", history |-> << >>]
    /\ ch = [pc |-> "idle"]
    /\ mt = [kind |-> "none"]
    /\ cc = [pc |-> "idle"]

NextExecutor ==
    \/ ExStart
    \/ ExClassify
    \/ ExRunAgents
    \/ RunnerStep
    \/ ExAgentsDone
    \/ ExClauses
    \/ ExSummary
    \/ ExRisk
    \/ ExExcept

SpecExecutor == InitExecutor /\ [][NextExecutor]_vars

\* The session store after construction; nothing else is running.
InitMemory ==
    /\ gw = GwIdle
    /\ ag = AgIdle
    /\ rn = RnIdle
    /\ ex = ExIdle
    /\ mem = ContractMemory
    /\ rk = RkIdle
    /\ th = [pc |-> << >>]
    /\ hist = [pc |-> "idle", history |-> << >>]
    /\ ch = [pc |-> "idle"]
    /\ mt = [kind |-> "none"]
    /\ cc = [pc |-> "idle"]

\* Any method call: on the texts "", " ", " a" and "a ", with or
\* without a name and a type; on a known session identifier or one that was
\* never issued; with a result or None; or list_history is called.  The clock has gone on by at most
\* one unit since the call before.
NextMemory ==
    \/ \E named \in { << TXT_EMPTY, TXT_EMPTY >>, << << "A" >>, << "N", "D", "A" >> >> },
          contract_text \in { TXT_EMPTY, << " " >>, << " ", "a" >>, << "a", " " >> },
          now \in { mem.now, mem.now + 1 }, hex \in { 0, 1 } :
          create_session(named[1], contract_text, named[2], now, hex)
    \/ \E session_id \in DOMAIN mem.sessions \cup { << "contract", 0, 2 >> },
          agent_name \in { "legal", "finance" },
          result \in { None, Some(<< "o", "k" >>) } :
          store_analysis(session_id, agent_name, result)
    \/ \E session_id \in DOMAIN mem.sessions \cup { << "contract", 0, 2 >> },
          report \in { None, Some(<< "r", "e", "p" >>) } :
          store_final_report(session_id, report)
    \/ list_history

SpecMemory == InitMemory /\ [][NextMemory]_vars

\* A scorer at its entry.  _calculate_risk gets a list of up to MaxClauses
\* clause dicts, each without a risk_score or with one that is None, a word,
\* a number in a string, or an int below, in or above 0..100;
\* calculate_risk_score gets a text.
InitRisk ==
    /\ gw = GwIdle
    /\ ag = AgIdle
    /\ rn = RnIdle
    /\ ex = ExIdle
    /\ mem = ContractMemory
    /\ th = [pc |-> << >>]
    /\ hist = [pc |-> "idle", history |-> << >>]
    /\ ch = [pc |-> "idle"]
    /\ mt = [kind |-> "none"]
    /\ cc = [pc |-> "idle"]
    /\ LET scores == << JNull, J("str", RiskLevels.LEVEL_HIGH), J("str", << " ", "1", "2", " " >>),
                         J("int", 0 - 121), J("int", 0), J("int", 10), J("int", 25),
                         J("int", 45), J("int", 90), J("int", 100), J("int", 250),
                         J("int", 9), J("int", 89) >>
           clause(k) == IF k = 0 THEN "clause_type" :> J("str", ClauseText.CLAUSE_GENERAL)
                        ELSE "risk_score" :> scores[k]
           lists  == UNION { [1..n -> 0..Len(scores)] : n \in 0..MaxClauses }
           texts  == { TXT_EMPTY, RiskText.RS_SCENARIO, RiskText.RS_WAIVE, RiskText.RS_NO_WAIVE, RiskText.RS_NOT_NEAR, RiskText.RS_NOT_FAR,
                       RiskText.RS_ONE_OF_TWO, RiskText.RS_TWICE, RiskText.RS_WITHOUT, RiskText.RS_ABSENCE, RiskText.RS_CASINO,
                       RiskText.RS_MEDIUM, RiskText.RS_PROTECTED, RiskText.RS_SEVERE, RiskText.RS_PLAIN }
       IN  \/ \E c \in lists :
                 rk = [RkIdle EXCEPT !.pc = "call", !.fn = "_calculate_risk",
                                     !.arg = [i \in DOMAIN c |-> clause(c[i])]]
           \/ \E t \in texts :
                 rk = [RkIdle EXCEPT !.pc = "call", !.fn = "calculate_risk_score", !.arg = t]

NextRisk ==
    \/ RkAggregate
    \/ RkScan

SpecRisk == InitRisk /\ [][NextRisk]_vars
\* ------------------------------------------------------------------------
\* agents_llm/classifier_agent.py
\* ------------------------------------------------------------------------

\* The scores of _heuristic_classify after its loop over weighted_rules: the
\* labels in the order of the dict, each with the sum of the weights of its
\* keywords that occur in text_l.
KeywordScores(text_l) ==
    LET T == LlmClassifierText
        weighted_rules ==
            << [label |-> T.LABEL_SERVICE_AGREEMENT, kws |-> << << T.KW_SERVICE, 5 >> >>],
               [label |-> T.LABEL_INVESTOR,
                kws |-> << << T.HEAD_INVESTMENT, 6 >>, << T.KW_EQUITY, 5 >> >>],
               [label |-> T.LABEL_NDA, kws |-> << << T.KW_CONFIDENTIAL, 6 >> >>],
               [label |-> T.LABEL_EMPLOYMENT,
                kws |-> << << T.KW_SALARY, 5 >>, << T.KW_EMPLOYEE, 6 >> >>],
               [label |-> T.LABEL_LEASE, kws |-> << << T.KW_RENT, 6 >>, << T.KW_TENANT, 5 >> >>],
               [label |-> T.LABEL_VENDOR,
                kws |-> << << T.KW_VENDOR, 6 >>, << T.KW_SUPPLIER, 5 >> >>],
               [label |-> T.LABEL_PARTNERSHIP, kws |-> << << T.KW_PARTNERSHIP, 6 >> >>],
               [label |-> T.LABEL_HEALTHCARE, kws |-> << << T.KW_MEDICAL, 5 >> >>],
               [label |-> T.LABEL_DISTRIBUTOR, kws |-> << << T.KW_DISTRIBUTOR, 6 >> >>],
               [label |-> T.LABEL_DEALER, kws |-> << << T.KW_DEALER, 6 >> >>] >>
    IN  [i \in DOMAIN weighted_rules |->
           [label |-> weighted_rules[i].label,
            score |-> SumScores([k \in DOMAIN weighted_rules[i].kws |->
                                   IF Contains(text_l, weighted_rules[i].kws[k][1])
                                   THEN weighted_rules[i].kws[k][2] ELSE 0])]]

\* _heuristic_classify: a phrase in the first 25 lines decides; otherwise
\* max(scores, key=scores.get) is the first label, in the order of the
\* dict, with the highest score, and a highest score of 0 gives "Other".
_heuristic_classify(text) ==
    LET T == LlmClassifierText
        pick(scores) ==
            LET best == SetMin({ i \in DOMAIN scores : \A j \in DOMAIN scores :
                                                          scores[j].score <= scores[i].score })
            IN  IF scores[best].score > 0 THEN scores[best].label ELSE T.LABEL_OTHER
        classify(head) ==
            IF Contains(head, T.HEAD_SERVICE_AGREEMENT) THEN T.LABEL_SERVICE_AGREEMENT
            ELSE IF Contains(head, T.HEAD_EMPLOYMENT_AGREEMENT) THEN T.LABEL_EMPLOYMENT
            ELSE IF Contains(head, T.HEAD_NON_DISCLOSURE) \/ Contains(head, T.HEAD_NDA)
            THEN T.LABEL_NDA
            ELSE IF Contains(head, T.HEAD_INVESTMENT) \/ Contains(head, T.HEAD_INVESTOR)
            THEN T.LABEL_INVESTOR
            ELSE Call(pick, KeywordScores(Lower(text)))
    IN  Call(classify, Lower(Join(<< " " >>, Take(SplitLines(text), 25))))

\* classify_contract without the test of the length of the stripped text.
classify_contract_NoLengthGuard(contract_text, outcome) ==
    LET T == LlmClassifierText
        text == Strip(OrDefault(contract_text, TXT_EMPTY))
    IN  IF ~Truthy(contract_text) THEN [ret |-> _heuristic_classify(TXT_EMPTY), prompt |-> None]
        ELSE [ret |-> IF ~outcome.raised /\ Truthy(outcome.val)
                         /\ Lower(Strip(outcome.val[1])) = Lower(T.LABEL_LEASE)
                      THEN T.LABEL_LEASE ELSE _heuristic_classify(text),
              prompt |-> Some(T.PROMPT_HEAD \o T.PROMPT_CONTRACT \o Take(text, 800)
                                  \o << "\n" >>)]

\* classify_contract(contract_text), with the outcome of its call of
\* call_hybrid_llm: the label it returns, and the prompt it handed to the
\* gateway (None when it returned without calling it).  The prompt is
\* abridged to its first line and the excerpt contract_text[:800].
classify_contract(contract_text, outcome) ==
    LET T == LlmClassifierText
        ALLOWED_CLASSES ==
            << T.LABEL_EMPLOYMENT, T.LABEL_NDA, T.LABEL_SERVICE_AGREEMENT, T.LABEL_VENDOR,
               T.LABEL_LEASE, T.LABEL_PARTNERSHIP, T.LABEL_HEALTHCARE, T.LABEL_INVESTOR,
               T.LABEL_DISTRIBUTOR, T.LABEL_DEALER, T.LABEL_OTHER >>
        nodot(c) == c # "."
        called(text) ==
            LET prompt == Some(T.PROMPT_HEAD \o T.PROMPT_CONTRACT \o Take(text, 800)
                                   \o << "\n" >>)
                match(response) ==
                    LET labels == { i \in DOMAIN ALLOWED_CLASSES :
                                      response = Lower(ALLOWED_CLASSES[i]) }
                    IN  IF labels # {} THEN ALLOWED_CLASSES[SetMin(labels)]
                        ELSE _heuristic_classify(text)
            IN  IF outcome.raised \/ ~Truthy(outcome.val)
                THEN [ret |-> _heuristic_classify(text), prompt |-> prompt]
                ELSE [ret |-> Call(match, Lower(Strip(SelectSeq(
                                      FirstLine(Strip(outcome.val[1])), nodot)))),
                      prompt |-> prompt]
        guarded(text) ==
            IF Len(text) < 15 THEN [ret |-> _heuristic_classify(text), prompt |-> None]
            ELSE called(text)
    IN  IF ~Truthy(contract_text) THEN [ret |-> _heuristic_classify(TXT_EMPTY), prompt |-> None]
        ELSE Call(guarded, Strip(contract_text[1]))
\* ------------------------------------------------------------------------
\* agents/review_planner.py
\* ------------------------------------------------------------------------

\* ReviewPlanner._default_questions
DefaultQuestions(contract_type) ==
    LET T == PlannerText
    IN  << T.Q_TERMINATION \o contract_type \o T.Q_MARK, T.Q_LIABILITY, T.Q_PAYMENT,
           T.Q_LEGAL, T.Q_JURISDICTION >>

\* ReviewPlanner._default_plan, as the dict that json.loads would give.
DefaultPlan ==
    LET T == PlannerText
        default_review_areas ==
            << T.AREA_TERMINATION, T.AREA_LIABILITY, T.AREA_PAYMENT, T.AREA_CONFIDENTIALITY,
               T.AREA_IP, T.AREA_LAW, T.AREA_DISPUTE, T.AREA_FORCE_MAJEURE, T.AREA_ASSIGNMENT,
               T.AREA_AMENDMENTS >>
        strs(seq) == J("list", [i \in DOMAIN seq |-> J("str", seq[i])])
    IN  J("object",
          "priority_areas" :> strs(Take(default_review_areas, 5))
          @@ "review_checklist" :> strs([i \in DOMAIN default_review_areas |->
                                            T.REVIEW \o default_review_areas[i]])
          @@ "recommended_agents" :> strs(<< T.AGENT_LEGAL, T.AGENT_FINANCE, T.AGENT_COMPLIANCE >>)
          @@ "focus_questions" :> strs(DefaultQuestions(T.CONTRACT))
          @@ "estimated_time" :> J("str", T.ESTIMATED_TIME)
          @@ "risk_hotspots" :> J("list", << >>))

\* ReviewPlanner.create_review_plan, as a function of the outcome of its
\* call_hybrid_llm(prompt, role="agent"): the default plan for a falsy or
\* blank text, for a call that raises and for a falsy response; otherwise
\* what _parse_json makes of the response, when that is truthy, and the
\* default plan when it is not.
create_review_plan(contract_text, outcome) ==
    LET _parse_json(text) ==
            LET start == SetMin({ i \in 1..Len(text) : text[i] = "{" } \cup { Len(text) + 1 })
                end   == SetMax({ i \in 1..Len(text) : text[i] = "}" } \cup { 0 })
            IN  IF start > Len(text) \/ end = 0 THEN JNull
                ELSE LET data == JsonLoads(SubSeq(text, start, end))
                     IN  IF data.t = "error" THEN JNull ELSE data
    IN  IF ~Truthy(contract_text) \/ Len(Strip(contract_text[1])) = 0 THEN DefaultPlan
        ELSE IF outcome.raised THEN DefaultPlan
        ELSE IF ~Truthy(outcome.val) THEN DefaultPlan
        ELSE LET parsed == _parse_json(outcome.val[1])
             IN  IF JTruthy(parsed) THEN parsed ELSE DefaultPlan

\* ------------------------------------------------------------------------
\* The throttle of the local provider: utils/hybrid_llm.py call_ollama,
\* utils/ollama_engine.py call_ollama
\* ------------------------------------------------------------------------

\* The delay of hybrid_llm.call_ollama, 1.2 seconds, in clock ticks of 0.3
\* seconds.
LocalDelay == 4

\* The clock reading, in ticks, up to which the threads are followed.
MaxClock == 12

\* A step of worker thread t inside call_ollama(prompt), prompt not empty.
\* hybrid_llm: `if time.time() - _last_local_call < 1.2: time.sleep(1.2)`,
\* then `_last_local_call = time.time()`, then requests.post.  ollama_engine
\* tests and sleeps 1.5 seconds (5 ticks) and posts under `with _lock`.  The test, the
\* assignment and the post are separate statements: another thread can run
\* between any two of them.
OllamaThrottle(t) ==
    \/ /\ th.pc[t] = "check"
       /\ IF th.clock - th.last_call < th.delay
          THEN th' = [th EXCEPT !.pc[t] = "sleep", !.wake[t] = th.clock + th.delay]
          ELSE th' = [th EXCEPT !.pc[t] = "stamp"]
    \/ /\ th.pc[t] = "sleep"
       /\ th.clock >= th.wake[t]
       /\ th' = [th EXCEPT !.pc[t] = "stamp"]
    \/ /\ th.pc[t] = "stamp"
       /\ th' = [th EXCEPT !.pc[t] = "post", !.last_call = th.clock]
    \/ /\ th.pc[t] = "post"
       /\ th.impl = "ollama_engine" => th.lock = 0
       /\ th' = [th EXCEPT !.pc[t] = "reply",
                           !.lock = IF th.impl = "ollama_engine" THEN t ELSE @,
                           !.issued = Append(@, th.clock)]
    \/ /\ th.pc[t] = "reply"
       /\ th' = [th EXCEPT !.pc[t] = "done", !.lock = IF @ = t THEN 0 ELSE @]
\* ------------------------------------------------------------------------
\* utils/history_manager.py
\* ------------------------------------------------------------------------

\* MAX_HISTORY
MAX_HISTORY == 10

\* The distinct contract texts that are saved, one more than MAX_HISTORY + 1.
MaxTexts == 12

\* get_contract_hash(text): hashlib.md5(text.encode()).hexdigest(), the
\* digest of the text as it is given (different texts have different
\* digests; the text is not stripped).
get_contract_hash(text) == [md5 |-> text]

\* A save_contract that deletes nothing.
save_contract_NoEviction(history, contract_text) ==
    LET h == get_contract_hash(contract_text)
        at == { i \in DOMAIN history : history[i].h = h }
    IN  IF at # {} THEN history ELSE Append(history, [h |-> h, text |-> contract_text])

\* save_contract: the history file after the call.  The file is a JSON
\* object, whose keys keep the order of their insertion: `history[h] = ...`
\* replaces the value of a key that is there and adds a new key at the end;
\* above MAX_HISTORY keys the first one is deleted.  Of the saved record only
\* "text" is kept.
save_contract(history, contract_text) ==
    LET h == get_contract_hash(contract_text)
        at == { i \in DOMAIN history : history[i].h = h }
        entry == [h |-> h, text |-> contract_text]
        stored == IF at # {} THEN [history EXCEPT ![SetMin(at)] = entry]
                  ELSE Append(history, entry)
    IN  IF Len(stored) > MAX_HISTORY THEN Tail(stored) ELSE stored

\* check_duplicate(contract_text) returns (h in history, h).
check_duplicate(history, contract_text) ==
    LET h == get_contract_hash(contract_text)
    IN  << \E i \in DOMAIN history : history[i].h = h, h >>
\* ------------------------------------------------------------------------
\* utils/chunker.py
\* ------------------------------------------------------------------------

DEFAULT_CHUNK_SIZE == 500

MaxChunkSize == 5

MaxOverlap == 6

\* The overlap that chunk_text works with, for the chunk size it works with:
\* none for a negative one, a fifth of the chunk size for one that is not
\* below the chunk size.
EffectiveOverlap_KeepNegative(chunk_size, overlap) ==
    IF overlap >= chunk_size THEN SetMax({ 0, chunk_size \div 5 }) ELSE overlap

EffectiveOverlap(chunk_size, overlap) ==
    LET clamped == IF overlap < 0 THEN 0 ELSE overlap
    IN  IF clamped >= chunk_size THEN SetMax({ 0, chunk_size \div 5 }) ELSE clamped

\* The start of the next chunk: overlap characters before the end of this
\* one, or the end itself when that would not move forward.
NextStart_NoGuard(start, end, overlap) == end - overlap

NextStart(start, end, overlap) ==
    LET next_start == end - overlap
    IN  IF next_start <= start THEN end ELSE next_start

\* chunk_text(text, chunk_size, overlap), one step at a time: the entry,
\* which returns [] for a falsy text and otherwise settles chunk_size and
\* overlap; one iteration of the loop; the return.  Positions are counted
\* from 0, as in the code.  cuts records start and end of every iteration,
\* and whether the iteration appended a chunk.
chunk_text ==
    \/ /\ ch.pc = "call"
       /\ IF ~Truthy(ch.text)
          THEN ch' = [ch EXCEPT !.pc = "done"]
          ELSE LET chunk_size == IF ch.arg.chunk_size <= 0 THEN DEFAULT_CHUNK_SIZE
                                 ELSE ch.arg.chunk_size
               IN  ch' = [ch EXCEPT !.pc = "loop",
                                    !.chunk_size = chunk_size,
                                    !.overlap = EffectiveOverlap(chunk_size, ch.arg.overlap),
                                    !.start = 0]
       /\ UNCHANGED << gw, ag, rn, ex, mem, rk, th, hist, mt, cc >>
    \/ /\ ch.pc = "loop"
       /\ LET text == ch.text[1]
              text_length == Len(text)
              start == ch.start
              rfind(sub, lo, hi) ==
                  LET at == { i \in lo..(hi - Len(sub)) : SubSeq(text, i + 1, i + Len(sub)) = sub }
                  IN  IF at = {} THEN 0 - 1 ELSE SetMax(at)
              window == start + ch.chunk_size
              sentence_end == SetMax({ rfind(<< ".", " " >>, start, window),
                                       rfind(<< "!", " " >>, start, window),
                                       rfind(<< "?", " " >>, start, window),
                                       rfind(<< "\n" >>, start, window) })
              end == IF window < text_length /\ sentence_end > start
                     THEN sentence_end + 1 ELSE window
              chunk == Strip(SubSeq(text, start + 1, IF end < text_length THEN end
                                                     ELSE text_length))
          IN  IF start < text_length
              THEN ch' = [ch EXCEPT !.chunks = IF Len(chunk) > 0 THEN Append(@, chunk) ELSE @,
                                    !.start = NextStart(start, end, ch.overlap),
                                    !.cuts = Append(@, [start |-> start, end |-> end,
                                                        kept |-> Len(chunk) > 0])]
              ELSE ch' = [ch EXCEPT !.pc = "done"]
       /\ UNCHANGED << gw, ag, rn, ex, mem, rk, th, hist, mt, cc >>

\* ------------------------------------------------------------------------
\* memory/memory.py, called from several threads
\* ------------------------------------------------------------------------

\* Threads that call at the same time.
MaxThreads == 2

\* create_session("", text, "") in thread t, one access to the shared dicts
\* at a time: the guard and find_duplicate, which reads contract_hash_map;
\* the new identifier and self.sessions[session_id] = {...}; then
\* self.contract_hash_map[h] = session_id and the return.  The clock may have
\* gone on by a tick when the identifier is made.
CreateSessionThread(t) ==
    /\ mt.kind = "create_session"
    /\ LET contract_text == mt.text[t]
           h == Hash(contract_text)
       IN  \/ /\ mt.pc[t] = "find"
              /\ mt' = IF Len(contract_text) = 0
                       THEN [mt EXCEPT !.pc[t] = "raised"]
                       ELSE IF h \in DOMAIN mem.contract_hash_map
                       THEN [mt EXCEPT !.pc[t] = "done",
                                       !.ret[t] = Some(mem.contract_hash_map[h])]
                       ELSE [mt EXCEPT !.pc[t] = "session"]
              /\ mem' = mem
           \/ /\ mt.pc[t] = "session"
              /\ \E now \in { mem.now, mem.now + 1 }, hex \in { 0, 1 } :
                    LET session_id == << "contract", now, hex >>
                        session ==
                            [name |-> << "U", "n", "t", "i", "t", "l", "e", "d", " ",
                                         "C", "o", "n", "t", "r", "a", "c", "t" >>,
                             text |-> contract_text,
                             type |-> << "U", "n", "k", "n", "o", "w", "n" >>,
                             analyses |-> [a \in {} |-> a],
                             final_report |-> TXT_EMPTY,
                             created |-> strftime(Instants[now + 1])]
                    IN  /\ mem' = [mem EXCEPT
                                     !.now = now,
                                     !.order = IF session_id \in DOMAIN mem.sessions THEN @
                                               ELSE Append(@, session_id),
                                     !.sessions =
                                         [i \in DOMAIN @ \cup { session_id } |->
                                             IF i = session_id THEN session ELSE @[i]]]
                        /\ mt' = [mt EXCEPT !.pc[t] = "hash", !.session_id[t] = session_id]
           \/ /\ mt.pc[t] = "hash"
              /\ mem' = [mem EXCEPT
                           !.contract_hash_map =
                               [k \in DOMAIN @ \cup { h } |->
                                   IF k = h THEN mt.session_id[t] ELSE @[k]]]
              /\ mt' = [mt EXCEPT !.pc[t] = "done", !.ret[t] = Some(mt.session_id[t])]
    /\ UNCHANGED << gw, ag, rn, ex, rk, th, hist, ch, cc >>

\* get_memory() in thread t, one access to the global _memory_instance at a
\* time: the test `_memory_instance is None`; the assignment of a new
\* ContractMemory (the instances are numbered as they are made); the read of
\* the global for the return.
get_memory(t) ==
    /\ mt.kind = "get_memory"
    /\ \/ /\ mt.pc[t] = "test"
          /\ mt' = [mt EXCEPT !.pc[t] = IF mt._memory_instance = None THEN "construct"
                                        ELSE "return"]
       \/ /\ mt.pc[t] = "construct"
          /\ mt' = [mt EXCEPT !.pc[t] = "return", !.made = @ + 1,
                              !._memory_instance = Some(mt.made + 1)]
       \/ /\ mt.pc[t] = "return"
          /\ mt' = [mt EXCEPT !.pc[t] = "done", !.ret[t] = mt._memory_instance]
    /\ UNCHANGED << gw, ag, rn, ex, mem, rk, th, hist, ch, cc >>

\* ------------------------------------------------------------------------
\* agents/contract_classifier.py: ContractClassifier.classify and its cache
\* ------------------------------------------------------------------------

\* classify calls on one ContractClassifier.
MaxClassifyCalls == 3

\* A classify that caches the heuristic default as well.
classify_CacheDefault(contract_text, outcome) ==
    /\ cc.pc = "ready"
    /\ cc.calls < MaxClassifyCalls
    /\ LET called(text) ==
               LET key == Take(text, 800)
                   fresh(result) ==
                       LET stored(category) ==
                               [cc EXCEPT !.calls = @ + 1,
                                          !.gateway_calls = @ + 1,
                                          !.cache = (key :> category) @@ @,
                                          !.last = [text |-> contract_text,
                                                    source |-> IF result # None THEN "gateway"
                                                               ELSE "heuristic",
                                                    ret |-> category]]
                       IN  Call(stored, IF result # None THEN result[1]
                                        ELSE HeuristicPrimaryCategory(text))
                   default(category) ==
                       [cc EXCEPT !.calls = @ + 1,
                                  !.last = [text |-> contract_text, source |-> "heuristic",
                                            ret |-> category]]
               IN  IF Len(text) < 40
                   THEN Call(default, HeuristicPrimaryCategory(text))
                   ELSE IF key \in DOMAIN cc.cache
                   THEN [cc EXCEPT !.calls = @ + 1,
                                   !.last = [text |-> contract_text, source |-> "cache",
                                             ret |-> cc.cache[key]]]
                   ELSE Call(fresh, IF ~outcome.raised /\ Truthy(outcome.val)
                                    THEN ExtractJson(outcome.val[1]) ELSE None)
       IN  cc' = Call(called, Strip(OrDefault(contract_text, TXT_EMPTY)))
    /\ UNCHANGED << gw, ag, rn, ex, mem, rk, th, hist, ch, mt >>

\* classify(contract_text), as a function of the outcome of its gateway
\* call, with its result reduced to the primary category as in
\* classify_simple.  A stripped text under 40 characters gets the heuristic
\* category; a text whose key is in self.cache gets the cached result, and
\* hash(text[:800]) is represented by text[:800] (collisions of hash set
\* aside); otherwise the gateway is called, and a truthy response from which
\* _extract_json gets a result is cached and returned, anything else gives
\* the heuristic category.  `last` keeps the call, what it returned and where
\* that came from.
classify(contract_text, outcome) ==
    /\ cc.pc = "ready"
    /\ cc.calls < MaxClassifyCalls
    /\ LET called(text) ==
               LET key == Take(text, 800)
                   fallback(category) ==
                       [cc EXCEPT !.calls = @ + 1,
                                  !.gateway_calls = @ + 1,
                                  !.last = [text |-> contract_text, source |-> "heuristic",
                                            ret |-> category]]
                   fresh(result) ==
                       IF result # None
                       THEN [cc EXCEPT !.calls = @ + 1,
                                       !.gateway_calls = @ + 1,
                                       !.cache = (key :> result[1]) @@ @,
                                       !.last = [text |-> contract_text, source |-> "gateway",
                                                 ret |-> result[1]]]
                       ELSE Call(fallback, HeuristicPrimaryCategory(text))
                   default(category) ==
                       [cc EXCEPT !.calls = @ + 1,
                                  !.last = [text |-> contract_text, source |-> "heuristic",
                                            ret |-> category]]
               IN  IF Len(text) < 40
                   THEN Call(default, HeuristicPrimaryCategory(text))
                   ELSE IF key \in DOMAIN cc.cache
                   THEN [cc EXCEPT !.calls = @ + 1,
                                   !.last = [text |-> contract_text, source |-> "cache",
                                             ret |-> cc.cache[key]]]
                   ELSE Call(fresh, IF ~outcome.raised /\ Truthy(outcome.val)
                                    THEN ExtractJson(outcome.val[1]) ELSE None)
       IN  cc' = Call(called, Strip(OrDefault(contract_text, TXT_EMPTY)))
    /\ UNCHANGED << gw, ag, rn, ex, mem, rk, th, hist, ch, mt >>

\* ------------------------------------------------------------------------
\* utils/risk_heuristic.py: RiskHeuristic
\* ------------------------------------------------------------------------

\* self.high_risk_patterns: a regex and the risk it stands for.  "\s+" is one
\* or more characters of Whitespace.
high_risk_patterns ==
    LET H == HeuristicText
        gap == Class(Whitespace, 1, Unbounded)
    IN  << [re |-> << << Lit(H.W_UNLIMITED, FALSE), gap, Lit(H.W_LIABILITY, FALSE) >> >>,
            desc |-> H.R_UNLIMITED_LIABILITY],
           [re |-> << << Lit(H.W_UNLIMITED, FALSE), gap, Lit(H.W_INDEMNIF, FALSE) >> >>,
            desc |-> H.R_UNLIMITED_INDEMNITY],
           [re |-> << << Lit(H.W_PERPETUAL, FALSE) >> >>, desc |-> H.R_PERPETUAL],
           [re |-> << << Lit(H.W_IRREVOCABLE, FALSE) >> >>, desc |-> H.R_IRREVOCABLE] >>

\* self.medium_risk_patterns.  ".?" is at most one character: the texts
\* searched are clauses, which hold no newline.
medium_risk_patterns ==
    LET H == HeuristicText
        gap == Class(Whitespace, 1, Unbounded)
        maybe == Class({}, 0, 1)
    IN  << [re |-> << << Lit(H.W_PENALTY, FALSE) >> >>, desc |-> H.R_PENALTY],
           [re |-> << << Lit(H.W_LIQUIDATED, FALSE), gap, Lit(H.W_DAMAGES, FALSE) >> >>,
            desc |-> H.R_LIQUIDATED],
           [re |-> << << Lit(H.W_AUTO, FALSE), maybe, Lit(H.W_RENEW, FALSE) >> >>,
            desc |-> H.R_AUTO_RENEWAL],
           [re |-> << << Lit(H.W_TERMINATION, FALSE), gap, Lit(H.W_FEE, FALSE) >> >>,
            desc |-> H.R_TERMINATION_FEE],
           [re |-> << << Lit(H.W_NON, FALSE), maybe, Lit(H.W_COMPETE, FALSE) >> >>,
            desc |-> H.R_NON_COMPETE],
           [re |-> << << Lit(H.W_NON, FALSE), maybe, Lit(H.W_SOLICIT, FALSE) >> >>,
            desc |-> H.R_NON_SOLICIT] >>

\* self.protective_patterns.  ".*" is any run of characters of the clause.
protective_patterns ==
    LET H == HeuristicText
        gap == Class(Whitespace, 1, Unbounded)
    IN  << [re |-> << << Lit(H.W_MUTUAL, FALSE) >> >>, desc |-> H.P_MUTUAL],
           [re |-> << << Lit(H.W_LIABILITY, FALSE), gap, Lit(H.W_CAP, FALSE) >> >>,
            desc |-> H.P_CAP],
           [re |-> << << Lit(H.W_LIMIT, FALSE), Class({}, 0, Unbounded),
                         Lit(H.W_LIABILITY, FALSE) >> >>,
            desc |-> H.P_LIMITED],
           [re |-> << << Lit(H.W_NOTICE, FALSE), gap, Lit(H.W_PERIOD, FALSE) >> >>,
            desc |-> H.P_NOTICE],
           [re |-> << << Lit(H.W_GOVERNING, FALSE), gap, Lit(H.W_LAW, FALSE) >> >>,
            desc |-> H.P_LAW],
           [re |-> << << Lit(H.W_DISPUTE, FALSE), gap, Lit(H.W_RESOLUTION, FALSE) >> >>,
            desc |-> H.P_DISPUTE] >>

\* RiskHeuristic.analyze_clause on a clause that is not empty: the risks and
\* the protections whose pattern is found in the lowered text, in the order
\* of the patterns, and 25 for each high risk, 12 for each medium risk, less
\* 5 for each protection, not below 0.
analyze_clause(clause_text) ==
    LET level(score) ==
            IF score >= 40 THEN HeuristicText.LEVEL_HIGH
            ELSE IF score >= 18 THEN HeuristicText.LEVEL_MEDIUM
            ELSE HeuristicText.LEVEL_LOW
        result(risks, protections, risk_score) ==
            LET final(score) ==
                    [risks |-> risks, protections |-> protections,
                     risk_score |-> score, risk_level |-> level(score)]
            IN  Call(final, IF risk_score < 0 THEN 0 ELSE risk_score)
        descs(found) == [k \in DOMAIN found |-> found[k].desc]
        tally(found) ==
            result(descs(found[1] \o found[2]), descs(found[3]),
                   25 * Len(found[1]) + 12 * Len(found[2]) - 5 * Len(found[3]))
        search(text) ==
            LET hit(p) == Search(text, p.re, 1).start # 0
            IN  [k \in 1..3 |->
                    SelectSeq(<< high_risk_patterns, medium_risk_patterns,
                                 protective_patterns >>[k], hit)]
        analyze(text) == Call(tally, search(text))
    IN  Call(analyze, Lower(clause_text))

\* re.split(r'[.;\n]', contract_text): the pieces between the separators, the
\* empty ones included.
SplitClauses(contract_text) ==
    LET split(t) ==
            LET seps == { i \in 1..Len(t) : t[i] \in {".", ";", "\n"} }
                bounds == seps \cup { 0, Len(t) + 1 }
                starts == bounds \ { Len(t) + 1 }
                nth(k) == CHOOSE b \in starts : Cardinality({ c \in starts : c < b }) = k - 1
                piece(b) == SubSeq(t, b + 1, SetMin({ c \in bounds : c > b }) - 1)
            IN  [k \in 1..Cardinality(starts) |-> piece(nth(k))]
    IN  Call(split, contract_text)

\* RiskHeuristic.analyze_contract: the dict it returns, its values as typed
\* values.  A missing or empty text gets the four-key dict of lines 95-100,
\* whose "protections" is a list.  Otherwise the clauses of more than 25
\* characters once stripped are analysed; the score is the truncated mean of
\* theirs and the level is taken from the mean; "top_risks" and
\* "positive_terms" are the first eight of the distinct risks and
\* protections, in the order of a Python set, which is given here as the
\* order of first occurrence.
analyze_contract(contract_text) ==
    IF ~Truthy(contract_text)
    THEN ("risk_level" :> J("str", HeuristicText.LEVEL_LOW))
            @@ ("risk_score" :> J("int", 0))
            @@ ("risks" :> J("list", << >>))
            @@ ("protections" :> J("list", << >>))
    ELSE LET report(results) ==
                 LET Sum[i \in 0..Len(results)] ==
                         IF i = 0 THEN 0 ELSE Sum[i - 1] + results[i].risk_score
                     Risks[i \in 0..Len(results)] ==
                         IF i = 0 THEN << >> ELSE Risks[i - 1] \o results[i].risks
                     Protect[i \in 0..Len(results)] ==
                         IF i = 0 THEN << >> ELSE Protect[i - 1] \o results[i].protections
                     total_score == Sum[Len(results)]
                     all_risks == Risks[Len(results)]
                     all_protect == Protect[Len(results)]
                     n == Len(results)
                     distinct(l) ==
                         LET first == { i \in DOMAIN l : \A j \in 1..(i - 1) : l[j] # l[i] }
                             nth(k) == CHOOSE i \in first :
                                           Cardinality({ j \in first : j < i }) = k - 1
                         IN  [k \in 1..Cardinality(first) |-> J("str", l[nth(k)])]
                     \* avg_score >= 40, avg_score >= 18 and int(avg_score)
                     \* for avg_score = total_score / n, or 0 when n = 0
                     level == IF n > 0 /\ total_score >= 40 * n THEN HeuristicText.LEVEL_HIGH
                              ELSE IF n > 0 /\ total_score >= 18 * n
                                   THEN HeuristicText.LEVEL_MEDIUM
                              ELSE HeuristicText.LEVEL_LOW
                 IN  ("risk_level" :> J("str", level))
                        @@ ("risk_score" :> J("int", IF n = 0 THEN 0 ELSE total_score \div n))
                        @@ ("total_risks" :> J("int", Len(all_risks)))
                        @@ ("protections" :> J("int", Len(all_protect)))
                        @@ ("top_risks" :> J("list", Take(distinct(all_risks), 8)))
                        @@ ("positive_terms" :> J("list", Take(distinct(all_protect), 8)))
             valid(c) == Len(Strip(c)) > 25
             valid_clauses == SelectSeq(SplitClauses(contract_text[1]), valid)
         IN  Call(report, [i \in DOMAIN valid_clauses |->
                              analyze_clause(valid_clauses[i])])

\* RiskHeuristic.get_recommendations(risk_result): the list it returns, or
\* Raise.  risk_result["risk_level"] raises KeyError on a dict without the
\* key, and `risk_result.get("protections", 0) > 3` raises TypeError when the
\* value is not a number.
get_recommendations(risk_result) ==
    LET H == HeuristicText
        top_risks == Get(risk_result, "top_risks", J("list", << >>)).v
        has(d) == \E i \in DOMAIN top_risks : top_risks[i] = J("str", d)
        protections == Get(risk_result, "protections", J("int", 0))
        rec == (IF risk_result["risk_level"] = J("str", H.LEVEL_HIGH) THEN << H.REC_HIGH >> ELSE << >>)
               \o (IF has(H.R_UNLIMITED_LIABILITY) THEN << H.REC_CAP >> ELSE << >>)
               \o (IF has(H.R_AUTO_RENEWAL) THEN << H.REC_RENEWAL >> ELSE << >>)
               \o (IF protections.v > 3 THEN << H.REC_PROTECTED >> ELSE << >>)
    IN  IF "risk_level" \notin DOMAIN risk_result THEN Raise
        ELSE IF protections.t \notin {"int", "float", "bool"} THEN Raise
        ELSE Return(IF rec = << >> THEN << H.REC_NONE >> ELSE rec)

\* ------------------------------------------------------------------------
\* Specification of the helpers, each used on its own
\* ------------------------------------------------------------------------

\* One helper is in use.  A classifier is at its entry, on a missing, blank,
\* short or long text, with the outcome that its gateway call would have;
\* or analyze_clause is, on an empty, blank or proper clause text, with the
\* response that the gateway would give; or create_review_plan is, on a
\* missing, empty, blank or proper contract text, with the outcome of its
\* gateway call; or RiskHeuristic.analyze_contract is, on a missing, empty,
\* blank or proper contract text, its result to be handed to
\* get_recommendations;
\* or two worker threads have called call_ollama of one of the two gateways,
\* long after the epoch that the shared timestamp starts at; or the history
\* file has just been created, empty (by_date lists the texts of its
\* entries from the oldest "date" field to the newest); or chunk_text is at its entry, on a
\* missing, empty, blank or short text with any chunk size and overlap, or on
\* a text longer than the default chunk size with a chunk size that is not
\* positive; or MaxThreads threads have called create_session on a new
\* ContractMemory, each with an empty text, "a" or "a ", or have called
\* get_memory in a new process; or a ContractClassifier has just been made.
InitUtils ==
    /\ gw = GwIdle
    /\ ag = AgIdle
    /\ rn = RnIdle
    /\ ex = ExIdle
    /\ mem = ContractMemory
    /\ LET T == LlmClassifierText
           texts == { TXT_EMPTY, T.IN_BLANK, T.IN_NDA, T.IN_RENT, T.IN_TIE, T.IN_TIE_FIVE,
                      T.IN_PLAIN, T.IN_LEASE, T.IN_14, T.IN_15, T.IN_LONG,
                      T.IN_39, T.IN_40 }
           outcomes == { Raise, Return(None), Return(Some(TXT_EMPTY)),
                         Return(Some(T.OUT_LEASE)), Return(Some(T.OUT_NDA)),
                         Return(Some(T.OUT_ALIEN)) }
           replies == { TXT_EMPTY, ClassifierText.JSON_CATEGORY_LEASE, ProviderText.TXT_ANSWER }
           risks == { TXT_EMPTY, ProviderText.TXT_ANSWER, ClauseText.JSON_RISK_HIGH, ClauseText.JSON_RISK_OVER, ClauseText.JSON_RISK_NEGATIVE,
                      ClauseText.JSON_RISK_WORD, ClauseText.JSON_RISK_MISSING, ClauseText.JSON_RISK_NULL, ClauseText.JSON_RISK_TEXT,
                      ClauseText.JSON_RISK_EMPTY }
           P == PlannerText
           H == HeuristicText
           plans == { Raise, Return(None), Return(Some(TXT_EMPTY)), Return(Some(P.OUT_PLAN)),
                      Return(Some(P.OUT_OTHER_JSON)), Return(Some(P.OUT_NO_JSON)),
                      Return(Some(P.OUT_BROKEN)), Return(Some(P.OUT_EMPTY_OBJECT)) }
           short == { TXT_EMPTY, T.IN_BLANK,
                      << "a", "b", "c", "d", "e", "f", "g", "h" >>,
                      << "a", "b", ".", " ", "c", "d", ".", " ", "e" >>,
                      << "a", "\n", "b", "\n", "\n", "c", "d" >>,
                      << "a", "!", " ", "b", "?", " ", "c", "d", "e" >>,
                      << " ", " ", "a", "b", " ", " ", "c", "d", " " >>,
                      << "a", "b", "c", "d", "e", "\n", "f", "g", "h", "i", "j", "k" >> }
           long == [i \in 1..(DEFAULT_CHUNK_SIZE + 2) |-> IF i % 9 = 0 THEN " " ELSE "a"]
           no_threads == [pc |-> << >>]
           no_history == [pc |-> "idle", history |-> << >>]
           no_chunker == [pc |-> "idle"]
           no_callers == [kind |-> "none"]
           no_classifier == [pc |-> "idle"]
       IN  \/ /\ th = no_threads
              /\ hist = no_history
              /\ ch = no_chunker
              /\ mt = no_callers
              /\ cc = no_classifier
              /\ \/ \E t \in { None } \cup { Some(x) : x \in texts }, o \in outcomes :
                       rk = [RkIdle EXCEPT !.pc = "call", !.fn = "classify_contract",
                                           !.arg = [contract_text |-> t, outcome |-> o]]
                 \/ \E t \in texts :
                       rk = [RkIdle EXCEPT !.pc = "call", !.fn = "_heuristic_classify",
                                           !.arg = t]
                 \/ \E t \in { None } \cup { Some(x) : x \in texts }, r \in replies :
                       rk = [RkIdle EXCEPT !.pc = "call", !.fn = "classify_simple",
                                           !.arg = [contract_text |-> t, gateway_return |-> r]]
                 \/ \E t \in { TXT_EMPTY, ExecutorText.CT_BLANK, ClauseText.CLAUSE_TEXT_UNLIMITED }, r \in risks :
                       rk = [RkIdle EXCEPT !.pc = "call", !.fn = "analyze_clause",
                                           !.arg = [clause_text |-> t, clause_type |-> ClauseText.CLAUSE_LIABILITY,
                                                    gateway_return |-> r]]
                 \/ \E t \in { None, Some(TXT_EMPTY), Some(T.IN_BLANK), Some(P.IN_CONTRACT) },
                        o \in plans :
                       rk = [RkIdle EXCEPT !.pc = "call", !.fn = "create_review_plan",
                                           !.arg = [contract_text |-> t, outcome |-> o]]
                 \/ \E t \in { None, Some(TXT_EMPTY) }
                              \cup { Some(x) : x \in { H.IN_BLANK, H.IN_SHORT, H.IN_PLAIN, H.IN_HIGH,
                                                       H.IN_RENEW, H.IN_PROTECTED, H.IN_MEDIUM,
                                                       H.IN_MIXED } } :
                       rk = [RkIdle EXCEPT !.pc = "call", !.fn = "analyze_contract",
                                           !.arg = [contract_text |-> t, risk_result |-> << >>]]
           \/ /\ rk = RkIdle
              /\ hist = no_history
              /\ ch = no_chunker
              /\ mt = no_callers
              /\ cc = no_classifier
              /\ \E impl \in { "hybrid_llm", "ollama_engine" } :
                    \E delay \in { IF impl = "ollama_engine" THEN 5 ELSE LocalDelay } :
                       th = [impl |-> impl, delay |-> delay, clock |-> delay, last_call |-> 0,
                             pc |-> [t \in {1, 2} |-> "check"], wake |-> [t \in {1, 2} |-> 0],
                             lock |-> 0, issued |-> << >>]
           \/ /\ rk = RkIdle
              /\ th = no_threads
              /\ ch = no_chunker
              /\ mt = no_callers
              /\ cc = no_classifier
              /\ hist = [pc |-> "ready", history |-> << >>, texts |-> 0, by_date |-> << >>,
                         last |-> [op |-> "none", text |-> TXT_EMPTY, ret |-> << >>]]
           \/ /\ rk = RkIdle
              /\ th = no_threads
              /\ hist = no_history
              /\ ch = no_chunker
              /\ mt = no_callers
              /\ cc = [pc |-> "ready", cache |-> << >>, calls |-> 0, gateway_calls |-> 0,
                       last |-> [text |-> None, source |-> "none", ret |-> TXT_EMPTY]]
           \/ /\ rk = RkIdle
              /\ th = no_threads
              /\ hist = no_history
              /\ ch = no_chunker
              /\ cc = no_classifier
              /\ \/ \E text \in [1..MaxThreads -> { TXT_EMPTY, << "a" >>, << "a", " " >> }] :
                       mt = [kind |-> "create_session", text |-> text,
                             pc |-> [t \in 1..MaxThreads |-> "find"],
                             session_id |-> [t \in 1..MaxThreads |-> None],
                             ret |-> [t \in 1..MaxThreads |-> None]]
                 \/ mt = [kind |-> "get_memory", _memory_instance |-> None, made |-> 0,
                          pc |-> [t \in 1..MaxThreads |-> "test"],
                          ret |-> [t \in 1..MaxThreads |-> None]]
           \/ /\ rk = RkIdle
              /\ th = no_threads
              /\ hist = no_history
              /\ mt = no_callers
              /\ cc = no_classifier
              /\ \E text \in { None } \cup { Some(x) : x \in short \cup { long } },
                    chunk_size \in (0 - 1)..MaxChunkSize, overlap \in (0 - 1)..MaxOverlap :
                    /\ text = Some(long) => chunk_size <= 0
                    /\ ch = [pc |-> "call", text |-> text,
                             arg |-> [chunk_size |-> chunk_size, overlap |-> overlap],
                             chunk_size |-> 0, overlap |-> 0, start |-> 0,
                             chunks |-> << >>, cuts |-> << >>]

\* A classifier, analyze_clause or create_review_plan returns; a thread
\* takes a step in call_ollama, or time
\* passes; save_contract is called on the text after the newest of "a",
\* "aa", ..., on the newest, on "a" or on " a"; check_duplicate is called;
\* chunk_text takes a step; a thread takes a step in create_session or
\* in get_memory; classify is called on a missing, short or long text, and
\* its gateway call, if it makes one, raises, returns nothing, a JSON object,
\* a JSON object inside prose, or prose.
NextUtils ==
    \/ /\ rk.pc = "call"
       /\ rk.fn = "classify_contract"
       /\ rk' = [rk EXCEPT !.pc = "done",
                           !.out = classify_contract(rk.arg.contract_text, rk.arg.outcome)]
       /\ UNCHANGED << gw, ag, rn, ex, mem, th, hist, ch, mt, cc >>
    \/ /\ rk.pc = "call"
       /\ rk.fn = "_heuristic_classify"
       /\ rk' = [rk EXCEPT !.pc = "done", !.out = _heuristic_classify(rk.arg)]
       /\ UNCHANGED << gw, ag, rn, ex, mem, th, hist, ch, mt, cc >>
    \/ /\ rk.pc = "call"
       /\ rk.fn = "classify_simple"
       /\ rk' = [rk EXCEPT !.pc = "done",
                           !.out = ClassifySimple(rk.arg.contract_text, rk.arg.gateway_return)]
       /\ UNCHANGED << gw, ag, rn, ex, mem, th, hist, ch, mt, cc >>
    \/ /\ rk.pc = "call"
       /\ rk.fn = "analyze_clause"
       /\ rk' = [rk EXCEPT !.pc = "done",
                           !.out = AnalyzeClause(rk.arg.clause_text, rk.arg.clause_type,
                                                 rk.arg.gateway_return)]
       /\ UNCHANGED << gw, ag, rn, ex, mem, th, hist, ch, mt, cc >>
    \/ /\ rk.pc = "call"
       /\ rk.fn = "create_review_plan"
       /\ rk' = [rk EXCEPT !.pc = "done",
                           !.out = create_review_plan(rk.arg.contract_text, rk.arg.outcome)]
       /\ UNCHANGED << gw, ag, rn, ex, mem, th, hist, ch, mt, cc >>
    \/ /\ rk.pc = "call"
       /\ rk.fn = "analyze_contract"
       /\ rk' = [rk EXCEPT !.pc = "analysed",
                           !.arg.risk_result = analyze_contract(rk.arg.contract_text)]
       /\ UNCHANGED << gw, ag, rn, ex, mem, th, hist, ch, mt, cc >>
    \/ /\ rk.pc = "analysed"
       /\ rk' = [rk EXCEPT !.pc = "done", !.fn = "get_recommendations",
                           !.out = get_recommendations(rk.arg.risk_result)]
       /\ UNCHANGED << gw, ag, rn, ex, mem, th, hist, ch, mt, cc >>
    \/ \E t \in DOMAIN th.pc :
          /\ OllamaThrottle(t)
          /\ UNCHANGED << gw, ag, rn, ex, mem, rk, hist, ch, mt, cc >>
    \/ /\ DOMAIN th.pc # {}
       /\ th.clock < MaxClock
       /\ th' = [th EXCEPT !.clock = @ + 1]
       /\ UNCHANGED << gw, ag, rn, ex, mem, rk, hist, ch, mt, cc >>
    \/ /\ hist.pc = "ready"
       /\ \E text \in { [i \in 1..k |-> "a"] :
                            k \in {1, hist.texts, hist.texts + 1} \cap 1..MaxTexts }
                        \cup { << " ", "a" >> } :
             hist' = [hist EXCEPT
                        !.history = save_contract(@, text),
                        !.by_date =
                            LET after == save_contract(hist.history, text)
                                kept(t) == \E i \in DOMAIN after : after[i].text = t
                            IN  SelectSeq(SelectSeq(@, LAMBDA t : t # text) \o << text >>, kept),
                        !.texts = IF Len(text) > @ /\ Head(text) = "a" THEN Len(text) ELSE @,
                        !.last = [op |-> "save_contract", text |-> text, ret |-> << >>]]
       /\ UNCHANGED << gw, ag, rn, ex, mem, rk, th, ch, mt, cc >>
    \/ /\ hist.pc = "ready"
       /\ \E text \in { << "a" >>, << " ", "a" >>, << "a", " " >>, << "a", "a" >> } :
             hist' = [hist EXCEPT
                        !.last = [op |-> "check_duplicate", text |-> text,
                                  ret |-> check_duplicate(hist.history, text)]]
       /\ UNCHANGED << gw, ag, rn, ex, mem, rk, th, ch, mt, cc >>
    \/ chunk_text
    \/ \E t \in 1..MaxThreads : CreateSessionThread(t) \/ get_memory(t)
    \/ /\ cc.pc = "ready"
       /\ \E contract_text \in { None, Some(LlmClassifierText.IN_RENT),
                                 Some(LlmClassifierText.IN_39), Some(LlmClassifierText.IN_40),
                                 Some(ExecutorText.CT_LONG), Some(ExecutorText.CT_LONG \o << " " >>) },
             outcome \in { Raise, Return(None), Return(Some(TXT_EMPTY)),
                           Return(Some(ClassifierText.JSON_CATEGORY_LEASE)),
                           Return(Some(ClassifierText.TXT_SURE \o ClassifierText.JSON_CATEGORY_ALIEN \o ClassifierText.TXT_DONE)),
                           Return(Some(ProviderText.TXT_ANSWER)) } :
             classify(contract_text, outcome)

SpecUtils == InitUtils /\ [][NextUtils]_vars

\* chunk_text runs in the thread that called it, which is not held up.
SpecUtilsFair == SpecUtils /\ WF_vars(chunk_text)


\* ------------------------------------------------------------------------
\* Properties of the gateway
\* ------------------------------------------------------------------------

\* Number of occurrences of event e in the gateway's event log.
CountEvents(e) == Cardinality({ i \in 1..Len(gw.events) : gw.events[i] = e })

Happened(e) == \E i \in 1..Len(gw.events) : gw.events[i] = e

\* Event a occurs in the log, and before position i.
Before(a, i) == \E j \in 1..(i - 1) : gw.events[j] = a

\* C1: call_hybrid_llm is total: for every prompt and every combination of
\* provider outcomes it never raises, it can always take its next step until
\* it has returned, and what it returns is a non-empty string.
GatewayTotal ==
    /\ gw.pc # "raised"
    /\ gw.pc \notin {"done", "idle"} => ENABLED GatewayStep
    /\ gw.pc = "done" => Truthy(gw.ret)

\* Both providers were contacted, both failed, and the call has returned.
GatewayTotalWitness ==
    /\ gw.pc = "done"
    /\ gw.events = << "groq:request", "groq:rejected", "ollama:request",
                      "ollama:rejected", "static" >>

\* C2: the tiers are tried in the order primary, secondary, static fallback:
\* the local provider is contacted only after the primary attempt has ended
\* in a rejection, the static fallback is returned only after the primary and
\* every secondary attempt were rejected, and an accepted primary response is
\* returned as it is without the local provider being contacted.
TierOrder ==
    /\ \A i \in 1..Len(gw.events) :
          /\ gw.events[i] \in {"ollama:request", "ollama:rejected", "ollama:accepted"}
                => Before("groq:rejected", i)
          /\ gw.events[i] = "static"
                => /\ Before("groq:rejected", i)
                   /\ Before("ollama:rejected", i)
                   /\ ~Happened("groq:accepted")
                   /\ ~Happened("ollama:accepted")
                   /\ i = Len(gw.events)
    /\ gw.pc \in {"start", "groq", "groq_wait"}
          => ~Happened("ollama:request") /\ ~Happened("static") /\ gw.ret = None
    /\ gw.pc \in {"ollama", "ollama_wait"} => ~Happened("static") /\ gw.ret = None
    /\ Happened("groq:accepted")
          => /\ gw.pc = "done"
             /\ gw.ret = gw.groq_response
             /\ gw.tries = 0
             /\ gw.local_response = None
             /\ ~Happened("ollama:request")

\* The primary answered, was accepted, and its text was returned.
TierOrderWitness ==
    /\ gw.pc = "done"
    /\ gw.events = << "groq:request", "groq:accepted" >>
    /\ gw.ret = Some(ProviderText.TXT_SIX)

\* C5: a provider's text is returned only if it is longer than 5 characters;
\* a response of 5 characters or fewer is rejected like a failed request, so
\* the next tier is tried.
LengthRule ==
    /\ Happened("groq:accepted")
          => gw.ret = gw.groq_response /\ Len(gw.ret[1]) > 5
    /\ Happened("ollama:accepted")
          => gw.ret = gw.local_response /\ Len(gw.ret[1]) > 5
    /\ gw.pc = "done" /\ gw.ret # Some(HybridText.NO_PROMPT) /\ ~Happened("static")
          => Len(gw.ret[1]) > 5
    /\ gw.groq_response # None /\ Len(gw.groq_response[1]) <= 5
          => /\ Happened("groq:rejected")
             /\ gw.pc \in {"ollama", "ollama_wait", "fallback", "done"}
             /\ gw.pc = "done" => gw.tries >= 1
    /\ gw.pc \in {"ollama", "fallback", "done"}
          /\ gw.local_response # None /\ Len(gw.local_response[1]) <= 5
          => /\ Happened("ollama:rejected")
             /\ gw.pc = "done" => Happened("static") \/ gw.tries >= 2

\* The primary answered with exactly 5 characters and the call went on to
\* the local provider, whose longer answer was returned.
LengthRuleWitness ==
    /\ gw.pc = "done"
    /\ gw.groq_response = Some(ProviderText.TXT_FIVE)
    /\ Happened("ollama:accepted")

\* C6: after a primary failure the local provider is attempted more than
\* once when its first attempt is rejected, the first accepted attempt is
\* returned, and the static fallback comes only after every attempt of the
\* fixed retry count (more than one) was rejected.
SecondaryRetried ==
    /\ Happened("ollama:accepted") => gw.ret = gw.local_response
    /\ gw.pc = "done" /\ Happened("ollama:rejected")
          => gw.tries >= 2 /\ gw.tries <= OLLAMA_RETRY
    /\ Happened("static") => CountEvents("ollama:rejected") = OLLAMA_RETRY

\* ------------------------------------------------------------------------
\* Properties of the agents
\* ------------------------------------------------------------------------

\* C3: when both providers fail and the gateway returns its static fallback
\* string, legal_agent, finance_agent and compliance_agent return their
\* heuristic fallback text, never the static string.
AgentsReplaceStaticFallback ==
    /\ ag.pc = "done"
    /\ ag.name \in {"legal", "finance", "compliance"}
    /\ Happened("static")
    => /\ ag.out = Some(HeuristicFallback(ag.name, ag.text))
       /\ ag.out[1] \notin { StaticFallback("hybrid_llm", role) :
                                role \in {"analysis", "summary"} }

\* ------------------------------------------------------------------------
\* Properties of the parallel runner
\* ------------------------------------------------------------------------

ResultKeysAreTaskNames ==
    rn.pc = "returned" /\ rn.kind = "run_parallel_dict"
    => /\ DOMAIN rn.results = rn.names
       /\ \A n \in rn.names :
             /\ rn.results[n] \in { TaskValue(n), RunnerText.PLACEHOLDER_ERROR, RunnerText.PLACEHOLDER_TIMEOUT }
             /\ \A m \in rn.names \ {n} : rn.results[n] # TaskValue(m)

\* The four tasks finished in the reverse of their submission order and each
\* value is filed under its own name.
ResultKeysWitness ==
    /\ rn.pc = "returned"
    /\ rn.kind = "run_parallel_dict"
    /\ rn.order = << "operations", "compliance", "finance", "legal" >>
    /\ rn.results = [n \in TaskNames |-> TaskValue(n)]

\* C9: the runner never blocks past the per-task timeout: it is never still
\* waiting for a running task when its wait has lasted longer than the
\* timeout.
NeverBlocksPastTimeout ==
    ~(Blocked /\ rn.timeout > 0 /\ rn.clock > rn.timeout)

\* ------------------------------------------------------------------------
\* Properties of the executor
\* ------------------------------------------------------------------------

\* C4: the final report stored in the result of execute_full_analysis is
\* never the gateway's static fallback string; a gateway answer that is the
\* static fallback is replaced by the deterministic template report.
FinalReportNeverStaticFallback ==
    ex.pc = "returned" /\ ex.results.status = "completed"
    => ex.results.final_report \notin
          { StaticFallback("hybrid_llm", role) : role \in {"analysis", "summary"} }

\* C10: execute_full_analysis called with None, the empty string or a
\* whitespace-only string makes no classifier, agent, clause-analysis, report
\* or gateway call, never starts the agent pool, and returns with status
\* "failed" and a non-empty errors list.
BlankInputFailsFast ==
    (\/ ex.contract_text = None
     \/ \A i \in 1..Len(ex.contract_text[1]) : ex.contract_text[1][i] \in Whitespace)
    => /\ ex.calls = NoCalls
       /\ rn = RnIdle
       /\ ex.pc \in {"start", "returned"}
       /\ ex.pc = "returned"
             => ex.results.status = "failed" /\ Len(ex.results.errors) > 0

\* The call on a whitespace-only text has returned its failure.
BlankInputWitness ==
    /\ ex.pc = "returned"
    /\ ex.contract_text = Some(ExecutorText.CT_BLANK)
    /\ ex.results.status = "failed"
    /\ ex.results.errors = << ExecutorText.ERR_NO_TEXT >>

SameTextSameSession ==
    \A p, q \in mem.issued : Strip(p[1]) = Strip(q[1]) => p[2] = q[2]

\* Two calls with differently padded forms of one text have returned one
\* identifier, a session for another text exists, and the later call passed
\* another name than the session has.
SameTextSameSessionWitness ==
    /\ \E p, q \in mem.issued : p[1] # q[1] /\ Strip(p[1]) = Strip(q[1]) /\ p[2] = q[2]
    /\ Cardinality(DOMAIN mem.sessions) = 2
    /\ mem.last.op = "create_session"
    /\ ~mem.last.ret.raised
    /\ mem.sessions[mem.last.ret.val].name # mem.last.args[1]
    /\ mem.sessions[mem.last.ret.val].text # mem.last.args[2]

\* C13: a create_session call whose text, after trimming, is the text of an
\* existing session leaves the store as it was: no session and no hash is
\* added, and no field of any session changes, whatever name and type the
\* call passes.
DuplicateLeavesStore ==
    [][(/\ mem'.calls = mem.calls + 1
        /\ mem'.last.op = "create_session"
        /\ \E i \in DOMAIN mem.sessions :
               Strip(mem.sessions[i].text) = Strip(mem'.last.args[2]))
       => /\ mem'.sessions = mem.sessions
          /\ mem'.contract_hash_map = mem.contract_hash_map]_vars

\* A call without a name, on a differently padded form of the text of a
\* named session that has a stored analysis, has returned that session.
DuplicateLeavesStoreWitness ==
    /\ mem.last.op = "create_session"
    /\ ~mem.last.ret.raised
    /\ mem.last.args[1] = TXT_EMPTY
    /\ LET session == mem.sessions[mem.last.ret.val]
       IN  /\ session.text # mem.last.args[2]
           /\ session.name = << "A" >>
           /\ DOMAIN session.analyses # {}

\* C14: store_analysis and store_final_report do not raise; with a session
\* identifier that is not in the store they leave every session and the hash
\* map as they were, and with a known one they change nothing but that
\* session's analyses entry for the given agent, or its final_report.
StoreTouchesOnlyItsField ==
    [][(/\ mem'.calls = mem.calls + 1
        /\ mem'.last.op \in { "store_analysis", "store_final_report" })
       => LET session_id == mem'.last.args[1]
          IN  /\ ~mem'.last.ret.raised
              /\ mem'.contract_hash_map = mem.contract_hash_map
              /\ DOMAIN mem'.sessions = DOMAIN mem.sessions
              /\ \A i \in DOMAIN mem.sessions \ { session_id } :
                     mem'.sessions[i] = mem.sessions[i]
              /\ session_id \in DOMAIN mem.sessions
                     => LET old == mem.sessions[session_id]
                            new == mem'.sessions[session_id]
                        IN  /\ new.name = old.name
                            /\ new.text = old.text
                            /\ new.type = old.type
                            /\ new.created = old.created
                            /\ IF mem'.last.op = "store_final_report"
                               THEN new.analyses = old.analyses
                               ELSE /\ new.final_report = old.final_report
                                    /\ DOMAIN new.analyses =
                                          DOMAIN old.analyses \cup { mem'.last.args[2] }
                                    /\ \A a \in DOMAIN old.analyses \ { mem'.last.args[2] } :
                                          new.analyses[a] = old.analyses[a]]_vars

\* A final report was stored under an identifier that is not in the store
\* after an analysis had been stored in a session that is.
StoreTouchesOnlyItsFieldWitness ==
    /\ mem.last.op = "store_final_report"
    /\ mem.last.args[1] \notin DOMAIN mem.sessions
    /\ \E i \in DOMAIN mem.sessions : DOMAIN mem.sessions[i].analyses # {}

\* C15: for every list of clause records, also with a risk_score that is
\* missing, not a number, negative or above 100, the score that
\* _calculate_risk returns lies in 0..100.
AggregateInRange ==
    rk.pc = "done" /\ rk.fn = "_calculate_risk"
    => rk.out.score >= 0 /\ rk.out.score <= 100

\* The aggregator has returned 0 for two clauses: their mean with 50 halved
\* is negative, and the clamp raised it.
AggregateInRangeWitness ==
    /\ rk.pc = "done"
    /\ rk.fn = "_calculate_risk"
    /\ Len(rk.arg) = 2
    /\ rk.out.score = 0

\* C16: for every list of at least one clause with integer scores, the
\* aggregator's score is round((50 + mean of the scores) / 2) clamped to
\* 0..100, round() giving the nearest integer (the even one of two equally
\* near), also when the average with 50 is not a whole number.
AggregateIsRounded ==
    (/\ rk.pc = "done"
     /\ rk.fn = "_calculate_risk"
     /\ Len(rk.arg) >= 1
     /\ \A i \in 1..Len(rk.arg) :
            "risk_score" \in DOMAIN rk.arg[i] /\ rk.arg[i]["risk_score"].t = "int")
    => LET n     == Len(rk.arg)
           total == 50 * n + SumScores([i \in 1..n |-> rk.arg[i]["risk_score"].v])
           q     == total \div (2 * n)
           r     == total % (2 * n)
           round == IF 2 * r < 2 * n THEN q
                    ELSE IF 2 * r > 2 * n THEN q + 1
                    ELSE IF q % 2 = 0 THEN q ELSE q + 1
       IN  rk.out.score = Clamp(0, round, 100)

\* C17: the aggregator's level follows from its score alone: Low exactly
\* when the score is below 30, Medium exactly when it is 30 to 69, High
\* exactly when it is 70 or more; when no clause yields a score the result
\* is (Medium, 50).
LevelFollowsScore ==
    rk.pc = "done" /\ rk.fn = "_calculate_risk"
    => /\ rk.out.level = RiskLevels.LEVEL_LOW <=> rk.out.score < 30
       /\ rk.out.level = RiskLevels.LEVEL_MEDIUM <=> rk.out.score >= 30 /\ rk.out.score < 70
       /\ rk.out.level = RiskLevels.LEVEL_HIGH <=> rk.out.score >= 70
       /\ (\A i \in 1..Len(rk.arg) :
              int(Get(rk.arg[i], "risk_score", J("int", 50))).raised)
             => rk.out.level = RiskLevels.LEVEL_MEDIUM /\ rk.out.score = 50

\* The aggregator has returned High with the score 70, the threshold itself.
LevelFollowsScoreWitness ==
    /\ rk.pc = "done"
    /\ rk.fn = "_calculate_risk"
    /\ Len(rk.arg) >= 1
    /\ rk.out.score = 70
    /\ rk.out.level = RiskLevels.LEVEL_HIGH

\* C18 (as stated): calculate_risk_score on "This agreement includes
\* unlimited liability and indemnity. Liquidated damages apply. Governing law
\* is India." returns a score of at least 70 and the level High.
ScenarioIsHigh ==
    rk.pc = "done" /\ rk.fn = "calculate_risk_score" /\ rk.arg = RiskText.RS_SCENARIO
    => rk.out.score >= 70 /\ rk.out.level = RiskLevels.LEVEL_HIGH

\* C18 (amended): on that text calculate_risk_score returns the score 61 and
\* the level Medium: 35, two high-risk keywords (+30), one medium-risk
\* keyword (+6) and two protective keywords (-10), one of which, "limited
\* liability", is found inside "unlimited liability".
ScenarioIsMedium ==
    rk.pc = "done" /\ rk.fn = "calculate_risk_score" /\ rk.arg = RiskText.RS_SCENARIO
    => rk.out.score = 61 /\ rk.out.level = RiskLevels.LEVEL_MEDIUM

\* The scorer has returned for the text of the scenario.
ScenarioWitness ==
    /\ rk.pc = "done"
    /\ rk.fn = "calculate_risk_score"
    /\ rk.arg = RiskText.RS_SCENARIO
    /\ rk.out.score < 70

\* C19: in calculate_risk_score an occurrence of a high-risk keyword with
\* "no ", "not ", "without " or "absence of " in the 25 characters before it
\* is not counted: a keyword all of whose occurrences are so preceded adds
\* nothing to the score, and a keyword with an occurrence that is not so
\* preceded adds its 15 once, however many such occurrences there are.
NegatedKeywordNotCounted ==
    rk.pc = "done" /\ rk.fn = "calculate_risk_score" /\ Len(rk.arg) > 0
    => \E t \in { Lower(rk.arg) } :
          LET negated(p) ==
                  \E x \in { RiskText.NEG_NO, RiskText.NEG_NOT, RiskText.NEG_WITHOUT, RiskText.NEG_ABSENCE_OF } :
                     \E i \in SetMax({ 1, p - 25 })..(p - Len(x)) : OccursAt(t, x, i)
              counted(k) ==
                  \E p \in 1..(Len(t) - Len(k) + 1) : OccursAt(t, k, p) /\ ~negated(p)
              high   == { k \in { RiskText.HR_UNLIMITED_LIABILITY, RiskText.HR_UNLIMITED_INDEMN, RiskText.HR_PERPETUAL,
                                  RiskText.HR_IRREVOCABLE, RiskText.HR_LIQUIDATED_DAMAGES, RiskText.HR_SOLE_DISCRETION,
                                  RiskText.HR_WAIVE } : counted(k) }
              medium == { k \in { RiskText.MR_TERMINATION, RiskText.MR_BREACH, RiskText.MR_PENALTY, RiskText.MR_INTEREST,
                                  RiskText.MR_INDEMNITY, RiskText.MR_CONFIDENTIAL, RiskText.MR_NON_COMPETE,
                                  RiskText.MR_NON_SOLICITATION, RiskText.MR_ASSIGNMENT, RiskText.MR_AUTO_RENEW } :
                             ContainsTerm(t, k) }
              protective == { k \in { RiskText.PR_LIABILITY_CAP, RiskText.PR_LIMITED_LIABILITY,
                                      RiskText.PR_GOVERNING_LAW, RiskText.PR_ARBITRATION, RiskText.PR_NOTICE_PERIOD,
                                      RiskText.PR_DATA_PROTECTION, RiskText.PR_ENCRYPTED, RiskText.PR_BACKUP } :
                                 ContainsTerm(t, k) }
          IN  rk.out.score =
                 Clamp(5, 35 + 15 * Cardinality(high) + 6 * Cardinality(medium)
                             - 5 * Cardinality(protective), 100)

\* The scorer has returned 50 for a text with two occurrences of "waive",
\* the first after "no " and the second more than 25 characters further on.
NegatedKeywordWitness ==
    /\ rk.pc = "done"
    /\ rk.fn = "calculate_risk_score"
    /\ rk.arg = RiskText.RS_ONE_OF_TWO
    /\ rk.out.score = 50

\* C20: for every non-empty text calculate_risk_score returns the score
\* 35 + 15 per matched high-risk keyword + 6 per matched medium-risk keyword
\* - 5 per matched protective keyword, each keyword counted at most once,
\* clamped to 5..100, and the level High for a score of 70 or more, Medium
\* for 40 to 69 and Low below 40.
ScanScoreFormula ==
    rk.pc = "done" /\ rk.fn = "calculate_risk_score" /\ Len(rk.arg) > 0
    => \E t \in { Lower(rk.arg) } :
          LET matched(keywords) == Cardinality({ k \in keywords : ContainsTerm(t, k) })
              score ==
                  Clamp(5, 35 + 15 * matched({ RiskText.HR_UNLIMITED_LIABILITY, RiskText.HR_UNLIMITED_INDEMN,
                                               RiskText.HR_PERPETUAL, RiskText.HR_IRREVOCABLE,
                                               RiskText.HR_LIQUIDATED_DAMAGES, RiskText.HR_SOLE_DISCRETION,
                                               RiskText.HR_WAIVE })
                              + 6 * matched({ RiskText.MR_TERMINATION, RiskText.MR_BREACH, RiskText.MR_PENALTY,
                                              RiskText.MR_INTEREST, RiskText.MR_INDEMNITY, RiskText.MR_CONFIDENTIAL,
                                              RiskText.MR_NON_COMPETE, RiskText.MR_NON_SOLICITATION,
                                              RiskText.MR_ASSIGNMENT, RiskText.MR_AUTO_RENEW })
                              - 5 * matched({ RiskText.PR_LIABILITY_CAP, RiskText.PR_LIMITED_LIABILITY,
                                              RiskText.PR_GOVERNING_LAW, RiskText.PR_ARBITRATION,
                                              RiskText.PR_NOTICE_PERIOD, RiskText.PR_DATA_PROTECTION,
                                              RiskText.PR_ENCRYPTED, RiskText.PR_BACKUP }), 100)
          IN  /\ rk.out.score = score
              /\ rk.out.score >= 5 /\ rk.out.score <= 100
              /\ rk.out.level = (IF rk.out.score >= 70 THEN RiskLevels.LEVEL_HIGH
                                 ELSE IF rk.out.score >= 40 THEN RiskLevels.LEVEL_MEDIUM
                                 ELSE RiskLevels.LEVEL_LOW)

\* The scorer has returned 50 for a text in which one keyword occurs twice.
ScanScoreFormulaWitness ==
    /\ rk.pc = "done"
    /\ rk.fn = "calculate_risk_score"
    /\ rk.arg = RiskText.RS_TWICE
    /\ rk.out.score = 50
    /\ rk.out.level = RiskLevels.LEVEL_MEDIUM

\* ------------------------------------------------------------------------
\* The classifiers
\* ------------------------------------------------------------------------

TieIsOther ==
    LET T == LlmClassifierText
        head == Lower(Join(<< " " >>, Take(SplitLines(rk.arg), 25)))
        phrases == { T.HEAD_SERVICE_AGREEMENT, T.HEAD_EMPLOYMENT_AGREEMENT,
                     T.HEAD_NON_DISCLOSURE, T.HEAD_NDA, T.HEAD_INVESTMENT, T.HEAD_INVESTOR }
        scores == KeywordScores(Lower(rk.arg))
        top == SetMax({ scores[i].score : i \in DOMAIN scores })
        winners == { i \in DOMAIN scores : scores[i].score = top }
    IN  (rk.pc = "done" /\ rk.fn = "_heuristic_classify"
           /\ \A p \in phrases : ~Contains(head, p))
            => rk.out = IF top > 0 /\ Cardinality(winners) = 1
                        THEN scores[CHOOSE i \in winners : TRUE].label
                        ELSE T.LABEL_OTHER

\* ------------------------------------------------------------------------
\* The template report
\* ------------------------------------------------------------------------

\* C22: the template report is a function of the contract type and the
\* legal, finance and compliance texts alone: with the model call skipped
\* the gateway is never entered, every report that is not the gateway's
\* response is the one template report of these four inputs, and its risk
\* line is calculate_risk_score of the three texts joined by line breaks.
FallbackReportIsPure ==
    (ag.name = "report" /\ ag.pc = "done")
        => LET contract_type == OrDefault(ag.contract_type, ReportText.TYPE_CONTRACT)
               r == ag.results
               risk == calculate_risk_score(r.Legal \o << "\n" >> \o r.Finance
                                                \o << "\n" >> \o r.Compliance)
               template == FallbackReport(contract_type, r.Legal, r.Finance, r.Compliance)
           IN  /\ ag.skip => /\ gw = [GwIdle EXCEPT !.haskey = gw.haskey]
                             /\ ag.out = Some(template)
               /\ \/ ag.out = Some(template)
                  \/ gw.pc = "done" /\ Truthy(gw.ret) /\ ag.out = Some(Strip(gw.ret[1]))
               /\ ag.out = Some(template)
                      => Contains(template, ReportText.REPORT_FB_RISK \o risk.level \o << " ", "(" >>
                                                \o IntToStr(risk.score) \o ReportText.REPORT_FB_SUMMARY)

\* generate_final_report has returned the template report of the heuristic
\* agent results with the model call skipped.
FallbackReportIsPureWitness ==
    /\ ag.name = "report"
    /\ ag.pc = "done"
    /\ ag.skip
    /\ ag.results.Legal = LegalFallback(Strip(ExecutorText.CT_LONG))
    /\ gw.pc = "idle"
    /\ ag.out = Some(FallbackReport(ExecutorText.TYPE_NDA, ag.results.Legal, ag.results.Finance,
                                    ag.results.Compliance))

\* ------------------------------------------------------------------------
\* The throttle of the local provider
\* ------------------------------------------------------------------------

\* C24: whatever the interleaving of the worker threads inside call_ollama,
\* any two requests to the local provider are issued at least the delay of
\* 1.2 seconds apart.
ThrottleHolds ==
    DOMAIN th.pc # {}
        => \A i, j \in DOMAIN th.issued :
              i < j => th.issued[j] - th.issued[i] >= LocalDelay

\* ------------------------------------------------------------------------
\* The history file
\* ------------------------------------------------------------------------

\* C25: after any sequence of save_contract calls on a history that started
\* empty, the history holds at most MAX_HISTORY entries, and the text of the
\* latest save_contract call is a duplicate for check_duplicate.
HistoryCapped ==
    hist.pc = "ready"
        => /\ Len(hist.history) <= MAX_HISTORY
           /\ hist.last.op = "save_contract"
                  => check_duplicate(hist.history, hist.last.text)[1]

\* The eleventh distinct text has been saved: the text saved first is gone
\* and ten entries are left.
HistoryCappedWitness ==
    /\ hist.pc = "ready"
    /\ hist.last.op = "save_contract"
    /\ Len(hist.last.text) = MAX_HISTORY + 1
    /\ Len(hist.history) = MAX_HISTORY
    /\ ~check_duplicate(hist.history, << "a" >>)[1]

\* C26: check_duplicate(T2) reports a duplicate whenever the history holds
\* the entry of a text T1 with strip(T1) = strip(T2).
DuplicateUpToStrip ==
    (hist.pc = "ready" /\ hist.last.op = "check_duplicate")
        => ((\E i \in DOMAIN hist.history :
                Strip(hist.history[i].text) = Strip(hist.last.text))
               => hist.last.ret[1])

\* ------------------------------------------------------------------------
\* The clause analyzer
\* ------------------------------------------------------------------------

\* C27: the record that analyze_clause returns has an integer risk_score in
\* 0..100: 0 for an empty or blank clause text; otherwise the parsed
\* risk_score, raised to 0 or lowered to 100; 50 when the response holds no
\* JSON object, an empty one, or one whose risk_score is missing, null or
\* not a number.
ClauseScoreInRange ==
    (rk.pc = "done" /\ rk.fn = "analyze_clause")
        => LET r == rk.arg.gateway_return
               score == rk.out.risk_score
           IN  /\ score \in 0..100
               /\ Len(Strip(rk.arg.clause_text)) = 0 => score = 0
               /\ Len(Strip(rk.arg.clause_text)) > 0
                      => /\ r = ClauseText.JSON_RISK_NEGATIVE => score = 0
                         /\ r = ClauseText.JSON_RISK_OVER => score = 100
                         /\ r = ClauseText.JSON_RISK_HIGH => score = 90
                         /\ r = ClauseText.JSON_RISK_TEXT => score = 85
                         /\ r \in { TXT_EMPTY, ProviderText.TXT_ANSWER, ClauseText.JSON_RISK_WORD, ClauseText.JSON_RISK_MISSING,
                                    ClauseText.JSON_RISK_NULL, ClauseText.JSON_RISK_EMPTY } => score = 50

\* analyze_clause has returned on a response whose risk_score is -5.
ClauseScoreInRangeWitness ==
    /\ rk.pc = "done"
    /\ rk.fn = "analyze_clause"
    /\ rk.arg.clause_text = ClauseText.CLAUSE_TEXT_UNLIMITED
    /\ rk.arg.gateway_return = ClauseText.JSON_RISK_NEGATIVE
    /\ rk.out.risk_score = 0
    /\ rk.out.issues = << ClauseText.FLAG_VAGUE >>

\* ------------------------------------------------------------------------
\* The review planner
\* ------------------------------------------------------------------------

\* C28: the dict that create_review_plan returns has the key
\* "priority_areas" and the other five keys of the default plan, whatever the
\* contract text and whatever the gateway answered.
PlanHasKeys ==
    (rk.pc = "done" /\ rk.fn = "create_review_plan")
        => /\ rk.out.t = "object"
           /\ DOMAIN DefaultPlan.v \subseteq DOMAIN rk.out.v

\* ------------------------------------------------------------------------
\* The chunker
\* ------------------------------------------------------------------------

\* C29: every call of chunk_text returns, whatever the text, the chunk size
\* and the overlap, and start grows in every iteration of its loop; the list
\* it returns is empty for a missing or empty text, and no chunk in it is
\* empty.
ChunkTextTerminates ==
    /\ (ch.pc = "call") ~> (ch.pc = "done")
    /\ [][(ch.pc = "loop" /\ ch.pc' = "loop") => ch.start' > ch.start]_vars
    /\ [](ch.pc = "done" => /\ ~Truthy(ch.text) => ch.chunks = << >>
                            /\ \A k \in DOMAIN ch.chunks : Len(ch.chunks[k]) > 0)

\* chunk_text has returned two chunks or more, and in some iteration the
\* overlap would have taken start back to where it was or further.
ChunkTextTerminatesWitness ==
    /\ ch.pc = "done"
    /\ Len(ch.chunks) >= 2
    /\ ch.overlap > 0
    /\ \E i \in DOMAIN ch.cuts : ch.cuts[i].end - ch.overlap <= ch.cuts[i].start

\* The cuts that gave a chunk, in the order of the chunks.
KeptCuts == SelectSeq(ch.cuts, LAMBDA c : c.kept)

\* Where chunk k starts in the text, counted from 1: at the first character
\* of its cut that is not whitespace.
ChunkAt(k) ==
    LET c == KeptCuts[k]
    IN  SetMin({ p \in (c.start + 1)..Len(ch.text[1]) : ch.text[1][p] \notin Whitespace })

\* What the returned chunks have in common with the text, apart from their
\* lengths: the cuts start at the start of the text, none starts after the
\* end of the one before it, and the last one ends at the end of the text or
\* after it; every chunk is the text at its place; the places do not go
\* back; every character of the text that is not whitespace is in a chunk.
ChunksCoverText ==
    LET text == ch.text[1]
        cuts == ch.cuts
    IN  /\ Len(KeptCuts) = Len(ch.chunks)
        /\ Len(text) > 0 => /\ Len(cuts) > 0
                            /\ cuts[1].start = 0
                            /\ cuts[Len(cuts)].end >= Len(text)
        /\ \A i \in 1..(Len(cuts) - 1) : /\ cuts[i + 1].start <= cuts[i].end
                                         /\ cuts[i + 1].start > cuts[i].start
        /\ \A k \in DOMAIN ch.chunks :
              ch.chunks[k] = SubSeq(text, ChunkAt(k), ChunkAt(k) + Len(ch.chunks[k]) - 1)
        /\ \A k \in 1..(Len(ch.chunks) - 1) : ChunkAt(k) <= ChunkAt(k + 1)
        /\ { p \in 1..Len(text) : text[p] \notin Whitespace }
              \subseteq UNION { ChunkAt(k)..(ChunkAt(k) + Len(ch.chunks[k]) - 1) :
                                k \in DOMAIN ch.chunks }

\* C30 as stated: the chunks that chunk_text returns cover the text, in text
\* order, and none is longer than the chunk_size it was called with.
ChunksWithinChunkSize ==
    (ch.pc = "done" /\ Truthy(ch.text))
        => /\ ChunksCoverText
           /\ \A k \in DOMAIN ch.chunks : Len(ch.chunks[k]) <= ch.arg.chunk_size

\* C30, amended: the chunks that chunk_text returns cover the text, in text
\* order, and none is longer than the chunk_size it was called with when
\* that is positive, and than the default chunk size when it is not.
ChunksWithinEffectiveSize ==
    (ch.pc = "done" /\ Truthy(ch.text))
        => /\ ChunksCoverText
           /\ \A k \in DOMAIN ch.chunks :
                 Len(ch.chunks[k]) <= IF ch.arg.chunk_size > 0 THEN ch.arg.chunk_size
                                      ELSE DEFAULT_CHUNK_SIZE

\* chunk_text has returned from a call without a positive chunk size, on a
\* text longer than the default chunk size, with a chunk of the default
\* size, cut at the default overlap or with none.
ChunksWithinEffectiveSizeWitness ==
    /\ ch.pc = "done"
    /\ Truthy(ch.text)
    /\ ch.arg.chunk_size <= 0
    /\ Len(ch.text[1]) > DEFAULT_CHUNK_SIZE
    /\ Len(ch.chunks) >= 2
    /\ Len(ch.chunks[1]) = DEFAULT_CHUNK_SIZE

\* ------------------------------------------------------------------------
\* The history file, the executor and the session memory, continued
\* ------------------------------------------------------------------------

\* C31: the entry that a save_contract call removes from the history file is
\* the one that was saved least recently, re-saves counted: no entry with a
\* newer save than another is removed before it.
EvictsOldestSave ==
    [][hist.pc = "ready"
          => \A i \in DOMAIN hist.history :
                (\A j \in DOMAIN hist'.history : hist'.history[j].h # hist.history[i].h)
                    => hist.history[i].text = Head(hist.by_date)]_vars

\* C32: the stages of execute_full_analysis run in one order.  No agent task
\* runs before the classifier has returned; when the executor takes the
\* agents' outputs, each of the four tasks has ended and been collected, and
\* the output under a name is that task's value, or "" if it raised, whatever
\* the order in which the tasks ended; summary_agent is called after that;
\* the risk is computed after the clause analysis and the report; and a
\* result with status "completed" carries the risk of its clauses.
StagesInOrder ==
    /\ [](\A n \in rn.names :
             (ex.pc # "idle" /\ rn.task[n] \in { "running", "finished" })
                 => ex.pc = "agents" /\ ex.calls.classifier = 1 /\ ex.calls.report = 0)
    /\ [][(ex.pc = "agents" /\ ex.pc' # "agents")
             => /\ ex.pc' = "clauses"
                /\ \A n \in TaskNames :
                      /\ rn.task[n] = "finished"
                      /\ n \in rn.collected
                      /\ ex.results[n]' = IF rn.behaviour[n] = "return" THEN rn.value[n][1]
                                          ELSE TXT_EMPTY]_vars
    /\ [](ex.calls.clause > 0 \/ ex.calls.report > 0
             => ex.calls.agents = 4 /\ rn.pc = "idle")
    /\ [](ex.pc = "risk" => ex.calls.clause > 0 /\ ex.calls.report = 1)
    /\ []((ex.results.risk_level # RiskLevels.LEVEL_MEDIUM \/ ex.results.risk_score # 50
              \/ ex.results.status = "completed")
             => /\ ex.pc = "returned"
                /\ ex.results.status = "completed"
                /\ ex.calls.clause > 0
                /\ ex.calls.report = 1
                /\ ex.results.risk_score
                       = CalculateRisk([i \in 1..Len(ex.results.clauses) |->
                                           "risk_score" :>
                                               J("int", ex.results.clauses[i].risk_score)]).score)

\* execute_full_analysis has completed with clauses found, a report written,
\* a risk other than the default, and "" for the legal agent, which raised.
StagesInOrderWitness ==
    /\ ex.pc = "returned"
    /\ ex.results.status = "completed"
    /\ Len(ex.results.clauses) > 0
    /\ ex.results.risk_score # 50
    /\ ex.results.legal = TXT_EMPTY
    /\ Len(ex.results.finance) > 0
    /\ Len(ex.results.final_report) > 0

\* C33: list_history returns one entry for every stored session, and a
\* session that was created later than another comes before it, whatever the
\* days, months and years of the two create_session calls.  (The second
\* component of a session identifier is the tick of its creation.)
HistoryNewestFirst ==
    mem.last.op = "list_history"
        => LET history == mem.last.ret.val
           IN  /\ Len(history) = Cardinality(DOMAIN mem.sessions)
               /\ { history[i].session_id : i \in DOMAIN history } = DOMAIN mem.sessions
               /\ \A i, j \in DOMAIN history :
                     history[i].session_id[2] > history[j].session_id[2] => i < j

\* C34: when threads that called create_session at the same time with the
\* same text have all returned, they have the same session identifier, and
\* one session holds that text (or one that differs from it in leading and
\* trailing whitespace only).
ConcurrentCreateIsAtomic ==
    (mt.kind = "create_session" /\ \A t \in DOMAIN mt.pc : mt.pc[t] = "done")
        => \A t, u \in DOMAIN mt.pc :
              mt.text[t] = mt.text[u]
                  => /\ mt.ret[t] = mt.ret[u]
                     /\ Cardinality({ i \in DOMAIN mem.sessions :
                                         Hash(mem.sessions[i].text) = Hash(mt.text[t]) }) = 1

\* C35: the threads that have returned from get_memory all have the same
\* instance, and no second ContractMemory was ever made.
OneMemoryInstance ==
    mt.kind = "get_memory"
        => /\ mt.made <= 1
           /\ \A t, u \in DOMAIN mt.pc :
                 (mt.pc[t] = "done" /\ mt.pc[u] = "done") => mt.ret[t] = mt.ret[u]

\* C36: at all times every entry of contract_hash_map points to a session
\* that exists and whose stripped text has that hash, and every session is
\* pointed to by one entry; and a create_session call that makes a session
\* leaves every session that was there as it was, under an identifier that
\* was not in use.
HashMapMatchesSessions ==
    /\ [](\A h \in DOMAIN mem.contract_hash_map :
             /\ mem.contract_hash_map[h] \in DOMAIN mem.sessions
             /\ Hash(mem.sessions[mem.contract_hash_map[h]].text) = h)
    /\ [](\A i \in DOMAIN mem.sessions :
             Cardinality({ h \in DOMAIN mem.contract_hash_map :
                             mem.contract_hash_map[h] = i }) = 1)
    /\ [][(mem'.last.op = "create_session" /\ mem'.calls = mem.calls + 1
              /\ DOMAIN mem'.contract_hash_map # DOMAIN mem.contract_hash_map)
             => /\ mem'.last.ret.val \notin DOMAIN mem.sessions
                /\ \A i \in DOMAIN mem.sessions :
                      i \in DOMAIN mem'.sessions /\ mem'.sessions[i] = mem.sessions[i]]_vars

\* C37: a result that execute_full_analysis returns has status "failed"
\* exactly when its errors list is not empty, and then its risk_level and
\* risk_score are the defaults Medium and 50; the step in which a stage
\* raises changes nothing in the results but status and errors, so the
\* contract type and the agent outputs written before are kept.
FailedIffErrors ==
    /\ [](ex.pc = "returned"
             => /\ ex.results.status = "failed" <=> Len(ex.results.errors) > 0
                /\ ex.results.status \in { "failed", "completed" }
                /\ ex.results.status = "failed"
                       => /\ ex.results.risk_level = RiskLevels.LEVEL_MEDIUM
                          /\ ex.results.risk_score = 50)
    /\ [][(ex.pc \in { "classify", "clauses", "summary" } /\ ex.pc' = "returned")
             => ex.results' = [ex.results EXCEPT !.status = "failed",
                                                 !.errors = ex.results'.errors]]_vars

\* execute_full_analysis has returned a failed result after the classifier
\* and the four agents had written theirs: the report stage raised.
FailedIffErrorsWitness ==
    /\ ex.pc = "returned"
    /\ ex.results.status = "failed"
    /\ Len(ex.results.errors) = 1
    /\ ex.results.contract_type # ClassifierText.CAT_OTHER
    /\ Len(ex.results.legal) > 0
    /\ Len(ex.results.clauses) > 0
    /\ ex.results.final_report = TXT_EMPTY
    /\ ex.calls.report = 1

\* C38: when _calculate_risk is given one clause or more, each with an int
\* risk_score in 0..100 as analyze_clause returns them, its score is in
\* 25..75, its level is Low exactly when the mean of the clause scores is
\* below 10, and High exactly when the mean is 90 or more.
PipelineScoreBand ==
    (/\ rk.pc = "done"
     /\ rk.fn = "_calculate_risk"
     /\ Len(rk.arg) > 0
     /\ \A i \in DOMAIN rk.arg :
           /\ "risk_score" \in DOMAIN rk.arg[i]
           /\ rk.arg[i]["risk_score"].t = "int"
           /\ rk.arg[i]["risk_score"].v \in 0..100)
        => LET n == Len(rk.arg)
               total == SumScores([i \in DOMAIN rk.arg |-> rk.arg[i]["risk_score"].v])
           IN  /\ rk.out.score \in 25..75
               /\ rk.out.level = RiskLevels.LEVEL_LOW <=> total < 10 * n
               /\ rk.out.level = RiskLevels.LEVEL_HIGH <=> total >= 90 * n

\* _calculate_risk has returned Low for two clauses with the scores 9 and
\* 10, whose mean is just below 10.
PipelineScoreBandWitness ==
    /\ rk.pc = "done"
    /\ rk.fn = "_calculate_risk"
    /\ Len(rk.arg) = 2
    /\ rk.arg[1] = "risk_score" :> J("int", 9)
    /\ rk.arg[2] = "risk_score" :> J("int", 10)
    /\ rk.out.level = RiskLevels.LEVEL_LOW
    /\ rk.out.score = 29

\* ------------------------------------------------------------------------
\* The classifier's cache and the recommendations
\* ------------------------------------------------------------------------

\* C39: classify caches what it got from the gateway and nothing else.  A
\* call on a text of 40 characters or more whose key is cached makes no
\* gateway call, returns the cached result and leaves the cache alone; a call
\* that returns the heuristic category leaves the cache alone, so that the
\* text is not cached after it if it was not before; a call on such a text
\* that is not cached makes one gateway call; and the cache gets an entry
\* only from a gateway result, which it then holds under the text's key.
CacheHoldsGatewayResults ==
    [][(cc.pc = "ready" /\ cc'.calls = cc.calls + 1)
          => LET text == Strip(OrDefault(cc'.last.text, TXT_EMPTY))
                 key == Take(text, 800)
                 long == Len(text) >= 40
             IN  /\ (long /\ key \in DOMAIN cc.cache)
                       => /\ cc'.last.source = "cache"
                          /\ cc'.last.ret = cc.cache[key]
                          /\ cc'.gateway_calls = cc.gateway_calls
                          /\ cc'.cache = cc.cache
                 /\ cc'.last.source = "heuristic" => cc'.cache = cc.cache
                 /\ (long /\ key \notin DOMAIN cc.cache)
                       => cc'.gateway_calls = cc.gateway_calls + 1
                 /\ ~long => cc'.gateway_calls = cc.gateway_calls
                 /\ cc'.cache # cc.cache
                       => /\ cc'.last.source = "gateway"
                          /\ DOMAIN cc'.cache = DOMAIN cc.cache \cup { key }
                          /\ cc'.cache[key] = cc'.last.ret
                          /\ \A k \in DOMAIN cc.cache : cc'.cache[k] = cc.cache[k]]_vars

\* classify has answered from its cache, in the third call on one text: the
\* first fell back to the heuristic category, the second asked the gateway
\* again and cached its result.
CacheHoldsGatewayResultsWitness ==
    /\ cc.pc = "ready"
    /\ cc.calls = 3
    /\ cc.gateway_calls = 2
    /\ cc.last.source = "cache"
    /\ Cardinality(DOMAIN cc.cache) = 1

\* C40: get_recommendations, given what analyze_contract returned for any
\* text, the missing and the empty one included, does not raise and returns
\* a list that is not empty.
RecommendationsForEveryResult ==
    (rk.pc = "done" /\ rk.fn = "get_recommendations")
        => /\ ~rk.out.raised
           /\ Len(rk.out.val) > 0

====
